---- MODULE Spec2Model ----
(***************************************************************************)
(* Stock ledger: the dashboard handlers (StockDashboard.tsx), the sell     *)
(* dialog (SellDetailsDialog) and the ledger service with its retry        *)
(* wrapper (stockLedgerService.ts), over a Firestore collection.           *)
(*                                                                         *)
(* Values are JavaScript values, tagged by type.  A string is a sequence   *)
(* of lexical tokens: single characters, or a whole word such as "High"    *)
(* where the code never looks inside it; " " is the whitespace token.      *)
(* Prices and percentages are integers; riskReward is kept in hundredths   *)
(* (the code rounds it to two decimals).  Arithmetic is exact: binary      *)
(* floating-point rounding of priceBuy * (1 + t / 100) is not modelled.    *)
(* Instants are integers; a Firestore Timestamp and an ISO-8601 string of  *)
(* the same instant are different values.                                  *)
(***************************************************************************)
EXTENDS Integers, Sequences, FiniteSets, TLC

\* ------------------------------------------------------------------ bounds
MaxOps == 1
MaxPending == 1
MaxDocs == 2

\* ------------------------------------------------------- JavaScript values
Str(s) == [t |-> "str", s |-> s]
Num(n) == [t |-> "num", n |-> n]
Bool(b) == [t |-> "bool", b |-> b]
Ts(n) == [t |-> "ts", n |-> n]
Iso(n) == [t |-> "iso", n |-> n]
NaN == [t |-> "nan"]
Undef == [t |-> "undefined"]
Null == [t |-> "null"]
\* the property is not a key of the object at all ('k' in obj is false)
NoKey == [t |-> "nokey"]

\* what reading obj.k yields: a missing key reads as undefined
Read(v) == IF v = NoKey THEN Undef ELSE v

\* 'k' in obj
HasKey(v) == v # NoKey

\* JavaScript truthiness (!value is its negation)
Truthy(v) ==
  CASE v.t = "str" -> v.s # <<>>
    [] v.t = "num" -> v.n # 0
    [] v.t = "bool" -> v.b
    [] v.t \in {"ts", "iso"} -> TRUE
    [] OTHER -> FALSE

RECURSIVE TrimLeft(_)
TrimLeft(s) == IF s # <<>> /\ Head(s) = " " THEN TrimLeft(Tail(s)) ELSE s

RECURSIVE TrimRight(_)
TrimRight(s) ==
  IF s # <<>> /\ s[Len(s)] = " " THEN TrimRight(SubSeq(s, 1, Len(s) - 1)) ELSE s

\* String.prototype.trim
Trim(s) == TrimRight(TrimLeft(s))

IsDigit(c) == c \in {"0", "1", "2", "3", "4", "5", "6", "7", "8", "9"}

DigitVal(c) ==
  CASE c = "0" -> 0 [] c = "1" -> 1 [] c = "2" -> 2 [] c = "3" -> 3
    [] c = "4" -> 4 [] c = "5" -> 5 [] c = "6" -> 6 [] c = "7" -> 7
    [] c = "8" -> 8 [] c = "9" -> 9

\* value of the longest digit prefix of s, continuing from acc
RECURSIVE ParseDigits(_, _)
ParseDigits(s, acc) ==
  IF s # <<>> /\ IsDigit(Head(s))
    THEN ParseDigits(Tail(s), acc * 10 + DigitVal(Head(s)))
    ELSE acc

\* parseFloat on integer text: leading whitespace and a sign are accepted,
\* parsing stops at the first character that is not a digit
ParseFloat(s) ==
  LET u == TrimLeft(s)
      neg == u # <<>> /\ Head(u) = "-"
      d == IF neg THEN Tail(u) ELSE u
  IN IF d = <<>> \/ ~IsDigit(Head(d)) THEN NaN
     ELSE Num(IF neg THEN 0 - ParseDigits(d, 0) ELSE ParseDigits(d, 0))

\* Number(value)
ToNumber(v) ==
  CASE v.t = "num" -> v
    [] v.t = "null" -> Num(0)
    [] v.t = "bool" -> Num(IF v.b THEN 1 ELSE 0)
    [] v.t = "str" ->
         LET u == Trim(v.s)
             neg == u # <<>> /\ Head(u) = "-"
             d == IF neg THEN Tail(u) ELSE u
         IN IF u = <<>> THEN Num(0)
            ELSE IF d # <<>> /\ \A i \in 1..Len(d) : IsDigit(d[i])
              THEN Num(IF neg THEN 0 - ParseDigits(d, 0) ELSE ParseDigits(d, 0))
              ELSE NaN
    [] OTHER -> NaN

\* ------------------------------------------------- results of a validation
\* a thrown message is the pair <<field, complaint>>
Ok(v) == [ok |-> TRUE, v |-> v]
Fail(m) == [ok |-> FALSE, msg |-> m]

\* stockLedgerService.ts validateAndFormatDate
validateAndFormatDate(date) ==
  IF ~Truthy(date) THEN Fail(<<"Date", "is required">>)
  ELSE IF date.t = "ts" THEN Ok(Iso(date.n))
  ELSE IF date.t \in {"iso", "num"} THEN Ok(Iso(date.n))
  ELSE Fail(<<"Date", "is invalid">>)

\* stockLedgerService.ts validateAndFormatNumber
validateAndFormatNumber(value, fieldName) ==
  IF value.t \in {"null", "undefined", "nokey"} THEN Fail(<<fieldName, "is required">>)
  ELSE IF ToNumber(value) = NaN THEN Fail(<<fieldName, "must be a valid number">>)
  ELSE Ok(ToNumber(value))

\* validateString without the !value.trim() test
validateString_BlankAccepted(value, fieldName) ==
  IF ~Truthy(value) \/ value.t # "str"
    THEN Fail(<<fieldName, "is required and must be a non-empty string">>)
    ELSE Ok(Str(Trim(value.s)))

\* stockLedgerService.ts validateString
validateString(value, fieldName) ==
  IF ~Truthy(value) \/ value.t # "str" \/ Trim(value.s) = <<>>
    THEN Fail(<<fieldName, "is required and must be a non-empty string">>)
    ELSE Ok(Str(Trim(value.s)))

\* stockLedgerService.ts validateNumericField
validateNumericField(value, fieldName) ==
  LET r == validateAndFormatNumber(value, fieldName)
  IN IF ~r.ok THEN r
     ELSE IF r.v.n <= 0 THEN Fail(<<fieldName, "must be greater than 0">>)
     ELSE r

ConfidenceLevels == {<<"Low">>, <<"Medium">>, <<"High">>}
StatusValues == {<<"Active">>, <<"Closed">>}

\* ------------------------------------------------ entries and store records
\* types/ledger.ts StockEntry; a Firestore document has the same fields
\* except id.  A field the object does not have is NoKey.
EntryFields ==
  {"id", "stockName", "symbol", "dateBuy", "priceBuy", "targetPercent",
   "stopLossPercent", "riskReward", "reason", "chartLink", "confidence",
   "profitLoss", "hitTarget", "hitStopLoss", "dateSell", "priceSell",
   "status", "createdAt", "updatedAt"}

DocFields == EntryFields \ {"id"}

EmptyObject == [f \in EntryFields |-> NoKey]
EmptyDoc == [f \in DocFields |-> NoKey]

\* the opaque document id k as the entry's id value
DocId(k) == Str(<<"doc", k>>)

\* { ...a, ...b }: b's keys override a's
Spread(a, b) == [f \in EntryFields |-> IF HasKey(b[f]) THEN b[f] ELSE a[f]]

\* stockLedgerService.ts removeUndefinedValues
removeUndefinedValues(obj) ==
  [f \in DOMAIN obj |-> IF obj[f] = Undef THEN NoKey ELSE obj[f]]

\* first failed validation of a sequence of results, in order
RECURSIVE FirstFail(_)
FirstFail(rs) ==
  IF rs = <<>> THEN Ok(Undef)
  ELSE IF ~Head(rs).ok THEN Head(rs)
  ELSE FirstFail(Tail(rs))

\* RiskRewardOf with the quotient turned over
RiskRewardOf_Inverted(targetPercent, stopLossPercent) ==
  (200 * stopLossPercent + targetPercent) \div (2 * targetPercent)

\* RiskRewardOf cutting the quotient off after two decimals
RiskRewardOf_Truncated(targetPercent, stopLossPercent) ==
  (100 * targetPercent) \div stopLossPercent

\* Number((targetPercent / stopLossPercent).toFixed(2)), in hundredths:
\* the quotient rounded to two decimals (half up)
RiskRewardOf(targetPercent, stopLossPercent) ==
  (200 * targetPercent + stopLossPercent) \div (2 * stopLossPercent)

\* optional field: data.k ? validate(data.k) : undefined
OptionalField(v, r) == IF Truthy(v) THEN r ELSE Ok(Undef)

\* stockLedgerService.ts convertFirestoreToStockEntry
convertFirestoreToStockEntry(id, data) ==
  LET stockName == validateString(Read(data.stockName), "Stock name")
      symbol == validateString(Read(data.symbol), "Symbol")
      reason == validateString(Read(data.reason), "Reason")
      confidence == validateString(Read(data.confidence), "Confidence")
      confidenceOk ==
        IF confidence.ok /\ confidence.v.s \notin ConfidenceLevels
          THEN Fail(<<"Confidence", "is not a valid level">>) ELSE confidence
      dateBuy == validateAndFormatDate(Read(data.dateBuy))
      createdAt == validateAndFormatDate(Read(data.createdAt))
      updatedAt == validateAndFormatDate(Read(data.updatedAt))
      priceBuy == validateAndFormatNumber(Read(data.priceBuy), "Buy price")
      targetPercent ==
        validateAndFormatNumber(Read(data.targetPercent), "Target percentage")
      stopLossPercent ==
        validateAndFormatNumber(Read(data.stopLossPercent), "Stop loss percentage")
      chartLink ==
        OptionalField(Read(data.chartLink),
                      validateString(Read(data.chartLink), "Chart link"))
      dateSell ==
        OptionalField(Read(data.dateSell), validateAndFormatDate(Read(data.dateSell)))
      priceSell ==
        OptionalField(Read(data.priceSell),
                      validateAndFormatNumber(Read(data.priceSell), "Sell price"))
      profitLoss ==
        OptionalField(Read(data.profitLoss),
                      validateAndFormatNumber(Read(data.profitLoss), "Profit/Loss"))
      status == validateString(Read(data.status), "Status")
      statusOk ==
        IF status.ok /\ status.v.s \notin StatusValues
          THEN Fail(<<"Status", "is invalid">>) ELSE status
      failed ==
        FirstFail(<<stockName, symbol, reason, confidenceOk, dateBuy, createdAt,
                    updatedAt, priceBuy, targetPercent, stopLossPercent,
                    chartLink, dateSell, priceSell, profitLoss, statusOk>>)
  IN IF ~failed.ok THEN Fail(failed.msg)
     ELSE Ok([id |-> DocId(id),
              stockName |-> stockName.v,
              symbol |-> symbol.v,
              dateBuy |-> dateBuy.v,
              priceBuy |-> priceBuy.v,
              targetPercent |-> targetPercent.v,
              stopLossPercent |-> stopLossPercent.v,
              reason |-> reason.v,
              chartLink |-> chartLink.v,
              confidence |-> confidence.v,
              riskReward |-> IF Truthy(Read(data.riskReward))
                               THEN ToNumber(Read(data.riskReward)) ELSE Undef,
              profitLoss |-> profitLoss.v,
              hitTarget |-> Bool(Truthy(Read(data.hitTarget))),
              hitStopLoss |-> Bool(Truthy(Read(data.hitStopLoss))),
              dateSell |-> dateSell.v,
              priceSell |-> priceSell.v,
              status |-> status.v,
              createdAt |-> createdAt.v,
              updatedAt |-> updatedAt.v])

\* ------------------------------------------------------------------ errors
\* error codes the store surfaces
StoreErrors ==
  {"permission-denied", "not-found", "already-exists", "failed-precondition",
   "unavailable", "resource-exhausted"}

\* a FirestoreError thrown by a store call
FirestoreError(code) == [fs |-> TRUE, code |-> code, msg |-> code]

\* a plain Error
PlainError(m) == [fs |-> FALSE, code |-> "none", msg |-> m]

\* `Failed to ${operation}: ...`, without the cause's own message
FailedTo(operation) ==
  CASE operation = "add stock entry" -> "Failed to add stock entry"
    [] operation = "fetch stock entries" -> "Failed to fetch stock entries"
    [] operation = "update stock entry" -> "Failed to update stock entry"
    [] operation = "delete stock entry" -> "Failed to delete stock entry"

\* stockLedgerService.ts handleFirestoreError: whatever it is given, it
\* throws a plain Error whose message depends on the class
handleFirestoreError(error, operation) ==
  IF error.fs
    THEN CASE error.code = "permission-denied" ->
                PlainError("Please verify that you have the necessary permissions")
           [] error.code = "not-found" ->
                PlainError("The requested stock entry could not be found")
           [] error.code = "already-exists" ->
                PlainError("This stock entry already exists")
           [] error.code = "failed-precondition" ->
                PlainError("Unable to complete the operation")
           [] error.code = "unavailable" ->
                PlainError("The service is temporarily unavailable")
           [] error.code = "resource-exhausted" ->
                PlainError("You have exceeded the maximum number of operations")
           [] OTHER -> PlainError("Operation failed")
    ELSE PlainError(FailedTo(operation))

\* ------------------------------------------------------- the document store
\* The collection is a function from document ids to documents.

\* position of a createdAt value in Firestore's value order
OrderKey(v) == IF v.t = "ts" THEN v.n ELSE 0 - 1

\* does document a come before document b in orderBy('createdAt', 'desc');
\* ties are broken by document id, in the same direction
\* oldest first
ComesBefore_Ascending(st, a, b) ==
  \/ OrderKey(st[a].createdAt) < OrderKey(st[b].createdAt)
  \/ OrderKey(st[a].createdAt) = OrderKey(st[b].createdAt) /\ a < b

ComesBefore(st, a, b) ==
  \/ OrderKey(st[a].createdAt) > OrderKey(st[b].createdAt)
  \/ OrderKey(st[a].createdAt) = OrderKey(st[b].createdAt) /\ a > b

RECURSIVE OrderDesc(_, _)
OrderDesc(st, ids) ==
  IF ids = {} THEN <<>>
  ELSE LET first == CHOOSE a \in ids : \A b \in ids \ {a} : ComesBefore(st, a, b)
       IN <<first>> \o OrderDesc(st, ids \ {first})

\* query(collection, orderBy('createdAt', 'desc')): the ids of the snapshot's
\* documents, in order.  An orderBy clause also filters for the existence of
\* the field: a document without a createdAt field is not in the result.
QuerySnapshot(st) ==
  OrderDesc(st, {k \in DOMAIN st : HasKey(st[k].createdAt)})

\* updateDoc: the given fields are set, the others are kept
MergeDoc(old, data) == [f \in DocFields |-> IF HasKey(data[f]) THEN data[f] ELSE old[f]]

\* a write that leaves a second copy of the document under the next id
WithDoc_Duplicated(st, k, d) ==
  [j \in DOMAIN st \cup {k, k + 1} |-> IF j \in {k, k + 1} THEN d ELSE st[j]]

WithDoc(st, k, d) == [j \in DOMAIN st \cup {k} |-> IF j = k THEN d ELSE st[j]]
WithoutDoc(st, k) == [j \in DOMAIN st \ {k} |-> st[j]]

\* --------------------------------------------- the service operation bodies
\* One run of the async function handed to withRetry.  outcome is what the
\* store call does if the body reaches it: "ok" or the code of the
\* FirestoreError it throws.  cause records why the run threw.
Resolved(value, st) ==
  [ok |-> TRUE, value |-> value, store |-> st, wrote |-> TRUE,
   err |-> PlainError("none"), cause |-> "none"]
Threw(error, cause, st) ==
  [ok |-> FALSE, value |-> Undef, store |-> st, wrote |-> FALSE,
   err |-> error, cause |-> cause]

\* entry.chartLink?.trim()
TrimOptional(v) == IF v.t = "str" THEN Str(Trim(v.s)) ELSE Undef

\* stockLedgerService.addEntry, the function passed to withRetry
addEntryBody(entry, outcome, st, newId, now) ==
  LET stockName == validateString(Read(entry.stockName), "Stock name")
      symbol == validateString(Read(entry.symbol), "Symbol")
      reason == validateString(Read(entry.reason), "Reason")
      confidence == validateString(Read(entry.confidence), "Confidence")
      confidenceOk ==
        IF confidence.ok /\ confidence.v.s \notin ConfidenceLevels
          THEN Fail(<<"Confidence", "is not a valid level">>) ELSE confidence
      priceBuy == validateNumericField(Read(entry.priceBuy), "Buy price")
      targetPercent ==
        validateNumericField(Read(entry.targetPercent), "Target percentage")
      stopLossPercent ==
        validateNumericField(Read(entry.stopLossPercent), "Stop loss percentage")
      failed ==
        FirstFail(<<stockName, symbol, reason, confidenceOk, priceBuy,
                    targetPercent, stopLossPercent>>)
      riskReward == Num(RiskRewardOf(targetPercent.v.n, stopLossPercent.v.n))
      validatedEntry ==
        [EmptyDoc EXCEPT
           !.stockName = stockName.v,
           !.symbol = symbol.v,
           !.dateBuy = Ts(entry.dateBuy.n),
           !.priceBuy = priceBuy.v,
           !.targetPercent = targetPercent.v,
           !.stopLossPercent = stopLossPercent.v,
           !.reason = reason.v,
           !.chartLink = TrimOptional(Read(entry.chartLink)),
           !.confidence = confidence.v,
           !.riskReward = riskReward,
           !.createdAt = Ts(now),
           !.updatedAt = Ts(now),
           !.status = Str(<<"Active">>)]
      cleanedEntry == removeUndefinedValues(validatedEntry)
      returned ==
        Spread(Spread([EmptyObject EXCEPT !.id = DocId(newId)], entry),
               [EmptyObject EXCEPT
                  !.riskReward = riskReward,
                  !.status = Str(<<"Active">>),
                  !.createdAt = Iso(now),
                  !.updatedAt = Iso(now)])
  IN IF ~failed.ok
       THEN Threw(handleFirestoreError(PlainError("validation"), "add stock entry"),
                  "validation", st)
     ELSE IF outcome # "ok"
       THEN Threw(handleFirestoreError(FirestoreError(outcome), "add stock entry"),
                  outcome, st)
     ELSE Resolved(returned, WithDoc(st, newId, cleanedEntry))

\* stockLedgerService.getEntries, the function passed to withRetry
getEntriesBody(outcome, st) ==
  LET docs == QuerySnapshot(st)
      converted == [i \in 1..Len(docs) |-> convertFirestoreToStockEntry(docs[i], st[docs[i]])]
      entries == [i \in 1..Len(docs) |-> converted[i].v]
  IN IF outcome # "ok"
       THEN Threw(handleFirestoreError(FirestoreError(outcome), "fetch stock entries"),
                  outcome, st)
     ELSE IF \E i \in 1..Len(docs) : ~converted[i].ok
       THEN Threw(handleFirestoreError(PlainError("conversion"), "fetch stock entries"),
                  "validation", st)
     ELSE IF \E i \in 1..Len(docs) :
               ~Truthy(entries[i].id) \/ ~Truthy(entries[i].stockName)
                 \/ ~Truthy(entries[i].symbol)
       THEN Threw(handleFirestoreError(PlainError("invalid entry"), "fetch stock entries"),
                  "validation", st)
     ELSE [Resolved(entries, st) EXCEPT !.wrote = FALSE]

\* 'k' in updates ? validate(updates.k) : nothing to check
IfPresent(v, r) == IF HasKey(v) THEN r ELSE Ok(NoKey)

\* stockLedgerService.updateEntry, the function passed to withRetry;
\* id 0 is the empty id
updateEntryBody(id, updates, outcome, st, now) ==
  LET idOk == IF id = 0 THEN Fail(<<"Entry ID", "is required for update">>) ELSE Ok(NoKey)
      stockName == IfPresent(updates.stockName, validateString(updates.stockName, "Stock name"))
      symbol == IfPresent(updates.symbol, validateString(updates.symbol, "Symbol"))
      priceBuy == IfPresent(updates.priceBuy, validateNumericField(updates.priceBuy, "Buy price"))
      priceSell == IfPresent(updates.priceSell, validateNumericField(updates.priceSell, "Sell price"))
      targetPercent ==
        IfPresent(updates.targetPercent,
                  validateNumericField(updates.targetPercent, "Target percentage"))
      stopLossPercent ==
        IfPresent(updates.stopLossPercent,
                  validateNumericField(updates.stopLossPercent, "Stop loss percentage"))
      reason == IfPresent(updates.reason, validateString(updates.reason, "Reason"))
      confidence == IfPresent(updates.confidence, validateString(updates.confidence, "Confidence"))
      confidenceOk ==
        IF HasKey(updates.confidence) /\ confidence.ok
             /\ confidence.v.s \notin ConfidenceLevels
          THEN Fail(<<"Confidence", "is not a valid level">>) ELSE confidence
      failed ==
        FirstFail(<<idOk, stockName, symbol, priceBuy, priceSell, targetPercent,
                    stopLossPercent, reason, confidenceOk>>)
      updateData ==
        [EmptyDoc EXCEPT
           !.stockName = stockName.v,
           !.symbol = symbol.v,
           !.priceBuy = priceBuy.v,
           !.priceSell = priceSell.v,
           !.targetPercent = targetPercent.v,
           !.stopLossPercent = stopLossPercent.v,
           !.reason = reason.v,
           !.confidence = confidence.v,
           !.dateBuy = IF HasKey(updates.dateBuy) THEN Ts(updates.dateBuy.n) ELSE NoKey,
           !.dateSell = IF HasKey(updates.dateSell)
                          THEN (IF Truthy(updates.dateSell)
                                  THEN Ts(updates.dateSell.n) ELSE Null)
                          ELSE NoKey,
           !.updatedAt = Ts(now)]
      cleanedUpdates == removeUndefinedValues(updateData)
      \* updateDoc on a document that does not exist fails with not-found
      result == IF outcome = "ok" /\ id \notin DOMAIN st THEN "not-found" ELSE outcome
  IN IF ~failed.ok
       THEN Threw(handleFirestoreError(PlainError("validation"), "update stock entry"),
                  "validation", st)
     ELSE IF result # "ok"
       THEN Threw(handleFirestoreError(FirestoreError(result), "update stock entry"),
                  result, st)
     ELSE Resolved(Undef, WithDoc(st, id, MergeDoc(st[id], cleanedUpdates)))

\* stockLedgerService.deleteEntry, the function passed to withRetry
deleteEntryBody(id, outcome, st) ==
  IF id = 0
    THEN Threw(handleFirestoreError(PlainError("validation"), "delete stock entry"),
               "validation", st)
  ELSE IF outcome # "ok"
    THEN Threw(handleFirestoreError(FirestoreError(outcome), "delete stock entry"),
               outcome, st)
  ELSE Resolved(Undef, WithoutDoc(st, id))

\* -------------------------------------------------------------------- state
VARIABLES
  env,             \* process.env.NODE_ENV
  store,           \* the stockEntries collection: document id -> document
  nextId,          \* the id the store assigns to the next created document
  clock,           \* the current instant
  stockEntries,    \* StockDashboard state: the rendered list
  isLoading,       \* StockDashboard state
  isInitializing,  \* StockDashboard state
  error,           \* StockDashboard state: a load error is shown
  pending,         \* the service calls in flight, each inside withRetry
  opCount,         \* add, edit, close and delete handlers started so far
  last,            \* the handler that finished in the step just taken, if any
  seenClosed       \* ids the rendered list has shown with status Closed

\* the other parts of the application, each run by a specification of its own
VARIABLES
  live,            \* the LivePrice component
  stockRoute,      \* a request in GET /api/stock/:symbol
  searchRoute,     \* a request in GET /api/search
  limiter,         \* the rate limiters' counters for one client address
  symbolInput,     \* the StockSearch input field and the symbol it selects
  searchBox,       \* the debounced search box and its suggestions
  firebase         \* the module state of lib/firebase.ts

ledgerVars ==
  <<env, store, nextId, clock, stockEntries, isLoading, isInitializing, error,
    pending, opCount, last, seenClosed>>

otherVars == <<live, stockRoute, searchRoute, limiter, symbolInput, searchBox, firebase>>

vars == <<ledgerVars, otherVars>>

\* a part of the application that the specification at hand does not run
NotRunning == [t |-> "not running"]

OthersNotRunning ==
  /\ live = NotRunning
  /\ stockRoute = NotRunning
  /\ searchRoute = NotRunning
  /\ limiter = NotRunning
  /\ symbolInput = NotRunning
  /\ searchBox = NotRunning /\ firebase = NotRunning

\* stockLedgerService.ts MAX_RETRIES
MAX_RETRIES == IF env = "production" THEN 5 ELSE 3

\* stockLedgerService.ts RETRY_DELAY
RETRY_DELAY == IF env = "production" THEN 2000 ELSE 1000

\* stockLedgerService.ts delay: the milliseconds waited after a failed attempt
delay(ms, attempt) == ms * 2 ^ (attempt - 1)

\* withRetry's catch block: is the caught error one that stops the loop at
\* once (a FirestoreError that is not connection-related)
stopsRetry(caught) ==
  caught.fs /\ caught.code # "unavailable" /\ caught.code # "failed-precondition"

\* isLastAttempt giving up one attempt early
isLastAttempt_OneEarly(attempt, maxRetries) == attempt + 1 >= maxRetries

\* withRetry's catch block: the attempt was the last one allowed
isLastAttempt(attempt, maxRetries) == attempt = maxRetries

\* withRetry's catch block: rethrow the caught error or wait and loop
withRetryCatch(caught, attempt, maxRetries) ==
  IF stopsRetry(caught) THEN "throw"
  ELSE IF isLastAttempt(attempt, maxRetries) THEN "throw"
  ELSE "retry"

TransientCodes == {"unavailable", "failed-precondition"}

\* ----------------------------------------------------------------- history
NoHandler ==
  [opn |-> 0 - 1, kind |-> "none", id |-> 0, arg |-> EmptyObject, attempts |-> 0,
   waited |-> 0, result |-> "none", err |-> "none", cause |-> "none",
   emptyBefore |-> FALSE]

NewOp(n, kind, id, arg) ==
  [opn |-> n, kind |-> kind, id |-> id, arg |-> arg, attempt |-> 1, waited |-> 0]

\* the document id inside an entry's id value
IdOf(e) == e.id.s[2]

ClosedIds(entries) ==
  {IdOf(entries[i]) : i \in {j \in 1..Len(entries) : Read(entries[j].status) = Str(<<"Closed">>)}}

\* ------------------------------------------------------------ initial state
PastDate == 0
FutureDate == 1000

\* a record written by an earlier session's addEntry
LegacyDoc ==
  [EmptyDoc EXCEPT
     !.stockName = Str(<<"Infosys">>),
     !.symbol = Str(<<"INFY.NS">>),
     !.dateBuy = Ts(PastDate),
     !.priceBuy = Num(100),
     !.targetPercent = Num(10),
     !.stopLossPercent = Num(5),
     !.reason = Str(<<"dip">>),
     !.confidence = Str(<<"Low">>),
     !.riskReward = Num(200),
     !.createdAt = Ts(PastDate),
     !.updatedAt = Ts(PastDate),
     !.status = Str(<<"Active">>)]

RequiredFields ==
  {"stockName", "symbol", "reason", "confidence", "dateBuy", "createdAt",
   "updatedAt", "priceBuy", "targetPercent", "stopLossPercent", "status"}

\* records written by something other than addEntry: a required field is
\* missing or null, or an enumeration field has a foreign value
ForeignDocs ==
  {[LegacyDoc EXCEPT !.createdAt = NoKey],
   [LegacyDoc EXCEPT !.createdAt = Null],
   [LegacyDoc EXCEPT !.priceBuy = NoKey],
   [LegacyDoc EXCEPT !.confidence = Str(<<"high">>)],
   [LegacyDoc EXCEPT !.status = Str(<<"Open">>)]}

\* a record of an earlier session whose buy date is a day still to come
FutureDoc == [LegacyDoc EXCEPT !.stockName = Str(<<"Wipro">>), !.dateBuy = Ts(FutureDate)]

EmptyStore == [k \in {} |-> EmptyDoc]

InitialStores ==
  {EmptyStore, WithDoc(EmptyStore, 1, LegacyDoc)}
    \cup {WithDoc(WithDoc(EmptyStore, 1, LegacyDoc), 2, d) : d \in {FutureDoc} \cup ForeignDocs}

\* StockDashboard mounts: the effect starts loadEntries
Init ==
  /\ env \in {"development", "production"}
  /\ store \in InitialStores
  /\ nextId = Cardinality(DOMAIN store) + 1
  /\ clock = 1
  /\ stockEntries = <<>>
  /\ isLoading = TRUE
  /\ isInitializing = TRUE
  /\ error = FALSE
  /\ pending = {NewOp(0, "load", 0, EmptyObject)}
  /\ opCount = 0
  /\ last = NoHandler
  /\ seenClosed = {}
  /\ OthersNotRunning

\* ------------------------------------------------------------------- inputs
\* a NewStockEntry as the add dialog builds it
BaseInput ==
  [EmptyObject EXCEPT
     !.stockName = Str(<<"Reliance">>),
     !.symbol = Str(<<"RELIANCE.NS">>),
     !.dateBuy = Iso(PastDate),
     !.priceBuy = Num(100),
     !.targetPercent = Num(10),
     !.stopLossPercent = Num(5),
     !.reason = Str(<<"breakout">>),
     !.chartLink = Undef,
     !.confidence = Str(<<"High">>)]

\* a valid entry whose strings need trimming and whose ratio has more than
\* two decimals
UntrimmedInput ==
  [BaseInput EXCEPT
     !.stockName = Str(<<" ", "Reliance">>),
     !.reason = Str(<<" ", "breakout", " ">>),
     !.chartLink = Str(<<" ", "http://chart">>),
     !.confidence = Str(<<" ", "Low">>),
     !.stopLossPercent = Num(6)]

\* a valid entry with a blank chart link and a ratio that rounds to zero
TinyRatioInput ==
  [BaseInput EXCEPT
     !.chartLink = Str(<<" ">>),
     !.targetPercent = Num(1),
     !.stopLossPercent = Num(300)]

\* a valid entry bought on a day still to come
FutureInput == [BaseInput EXCEPT !.dateBuy = Iso(FutureDate)]

\* invalid values of single fields
InvalidVariants ==
  {<<"reason", Str(<<" ">>)>>,
   <<"confidence", Str(<<"high">>)>>,
   <<"priceBuy", Num(0)>>,
   <<"targetPercent", Num(0 - 10)>>,
   <<"stopLossPercent", NaN>>}

AddInputs ==
  {UntrimmedInput, TinyRatioInput, FutureInput}
    \cup {[BaseInput EXCEPT ![fv[1]] = fv[2]] : fv \in InvalidVariants}

\* what the user types into the sell price field
SellPriceTexts == {<<"1", "1", "2">>, <<"9", "5">>, <<"-", "5">>, <<"a", "b">>}

\* the days the user picks in the sell dialog's calendar
CalendarDates == {PastDate}

StoreOutcomes == {"ok"} \cup StoreErrors

\* ----------------------------------------------------------------- handlers
CanStart ==
  /\ ~isInitializing
  /\ ~isLoading
  /\ opCount < MaxOps
  /\ Cardinality(pending) < MaxPending

\* a handler starts a service call
Start(kind, id, arg) ==
  /\ pending' = pending \cup {NewOp(opCount + 1, kind, id, arg)}
  /\ opCount' = opCount + 1
  /\ last' = NoHandler

\* StockDashboard handleAddEntry, up to the await
HandleAddEntry(newEntry) ==
  /\ CanStart
  /\ Cardinality(DOMAIN store) < MaxDocs
  /\ Start("add", 0, newEntry)
  /\ isLoading' = TRUE
  /\ UNCHANGED <<otherVars, env, store, nextId, clock, stockEntries, isInitializing, error,
                 seenClosed>>

\* StockDashboard handleDeleteEntry, up to the await
HandleDeleteEntry(i) ==
  /\ CanStart
  /\ i \in 1..Len(stockEntries)
  /\ Start("delete", IdOf(stockEntries[i]), EmptyObject)
  /\ UNCHANGED <<otherVars, env, store, nextId, clock, stockEntries, isLoading, isInitializing,
                 error, seenClosed>>

\* StockDashboard handleEditEntry, up to the await: StockLedgerEntry calls
\* onEdit with the row's own entry
HandleEditEntry(i) ==
  /\ CanStart
  /\ i \in 1..Len(stockEntries)
  /\ Start("edit", IdOf(stockEntries[i]), stockEntries[i])
  /\ UNCHANGED <<otherVars, env, store, nextId, clock, stockEntries, isLoading, isInitializing,
                 error, seenClosed>>

\* closedEntry with a stop loss that is hit only below the stop-loss price
closedEntry_StrictStop(entryToUpdate, sellDetails) ==
  LET priceSell == sellDetails.priceSell.n
      priceBuy == entryToUpdate.priceBuy.n
      targetPercent == entryToUpdate.targetPercent.n
      stopLossPercent == entryToUpdate.stopLossPercent.n
  IN Spread(Spread(entryToUpdate, sellDetails),
            [EmptyObject EXCEPT
               !.status = Str(<<"Closed">>),
               !.profitLoss = Num(priceSell - priceBuy),
               !.hitTarget = Bool(priceSell * 100 >= priceBuy * (100 + targetPercent)),
               !.hitStopLoss = Bool(priceSell * 100 < priceBuy * (100 - stopLossPercent))])

\* the updatedEntry that onAddSellDetails builds
closedEntry(entryToUpdate, sellDetails) ==
  LET priceSell == sellDetails.priceSell.n
      priceBuy == entryToUpdate.priceBuy.n
      targetPercent == entryToUpdate.targetPercent.n
      stopLossPercent == entryToUpdate.stopLossPercent.n
  IN Spread(Spread(entryToUpdate, sellDetails),
            [EmptyObject EXCEPT
               !.status = Str(<<"Closed">>),
               !.profitLoss = Num(priceSell - priceBuy),
               !.hitTarget = Bool(priceSell * 100 >= priceBuy * (100 + targetPercent)),
               !.hitStopLoss = Bool(priceSell * 100 <= priceBuy * (100 - stopLossPercent))])

\* SellDetailsDialog handleSubmit's own check of the typed price
sellPriceRejected(priceSell) == priceSell = NaN \/ priceSell.n <= 0

\* SellDetailsDialog handleSubmit -> StockLedgerEntry handleSellSubmit ->
\* StockDashboard onAddSellDetails, up to the await.  date is the dialog's
\* date state: the instant the dialog opened, or a day picked in the calendar
\* (days before the buy date are disabled there).
SellDialogSubmit(i, text, date) ==
  /\ CanStart
  /\ i \in 1..Len(stockEntries)
  /\ Read(stockEntries[i].status) = Str(<<"Active">>)
  /\ \A op \in pending : ~(op.kind = "close" /\ op.id = IdOf(stockEntries[i]))
  /\ date = clock \/ (date \in CalendarDates /\ ~(date < stockEntries[i].dateBuy.n))
  /\ LET priceSell == ParseFloat(text)
         sellDetails ==
           [EmptyObject EXCEPT !.dateSell = Iso(date), !.priceSell = priceSell]
     IN IF sellPriceRejected(priceSell)
          THEN /\ last' = [NoHandler EXCEPT
                             !.kind = "sell dialog",
                             !.id = IdOf(stockEntries[i]),
                             !.result = "rejected",
                             !.err = "Please enter a valid sell price",
                             !.cause = "validation"]
               /\ UNCHANGED <<pending, opCount>>
          ELSE Start("close", IdOf(stockEntries[i]),
                     closedEntry(stockEntries[i], sellDetails))
  /\ UNCHANGED <<otherVars, env, store, nextId, clock, stockEntries, isLoading, isInitializing,
                 error, seenClosed>>

\* the page is loaded again: a fresh StockDashboard mounts and starts
\* loadEntries; the calls of the old page are gone with it
Reload ==
  /\ ~isInitializing
  /\ pending' = {NewOp(0, "load", 0, EmptyObject)}
  /\ last' = NoHandler
  /\ stockEntries' = <<>>
  /\ isLoading' = TRUE
  /\ isInitializing' = TRUE
  /\ error' = FALSE
  /\ UNCHANGED <<otherVars, env, store, nextId, clock, opCount, seenClosed>>

\* ------------------------------------------------- one attempt of withRetry
\* the operation withRetry runs for the call op, on the current store
RunBody(op, outcome) ==
  CASE op.kind = "load" -> getEntriesBody(outcome, store)
    [] op.kind = "add" -> addEntryBody(op.arg, outcome, store, nextId, clock)
    [] op.kind \in {"edit", "close"} ->
         updateEntryBody(op.id, op.arg, outcome, store, clock)
    [] op.kind = "delete" -> deleteEntryBody(op.id, outcome, store)

\* entries.map(e => e.id === id ? replacement : e)
ReplaceEntry(entries, id, replacement) ==
  [i \in 1..Len(entries) |->
     IF entries[i].id = DocId(id) THEN replacement ELSE entries[i]]

\* a filter that drops nothing
RemoveEntry_KeepsAll(entries, id) == entries

\* entries.filter(e => e.id !== id)
RemoveEntry(entries, id) == SelectSeq(entries, LAMBDA e : e.id # DocId(id))

\* handlerList removing the row before the delete is known to have succeeded
handlerList_EagerDelete(kind, id, arg, value, resolved, entries) ==
  IF kind = "delete" THEN RemoveEntry(entries, id)
  ELSE IF ~resolved THEN entries
  ELSE CASE kind = "load" -> value
         [] kind = "add" -> <<value>> \o entries
         [] kind \in {"edit", "close"} -> ReplaceEntry(entries, id, arg)

\* the rendered list once the handler of a call has run to its end: the
\* setStockEntries after the await when the call resolved, nothing in the
\* catch block when it rejected
handlerList(kind, id, arg, value, resolved, entries) ==
  IF ~resolved THEN entries
  ELSE CASE kind = "load" -> value
         [] kind = "add" -> <<value>> \o entries
         [] kind = "delete" -> RemoveEntry(entries, id)
         [] kind \in {"edit", "close"} -> ReplaceEntry(entries, id, arg)

\* the call settles: withRetry returns or throws, and the handler that
\* awaited it runs to its end
Finish(op, r) ==
  /\ store' = r.store
  /\ nextId' = IF op.kind = "add" /\ r.ok THEN nextId + 1 ELSE nextId
  /\ clock' = IF r.ok /\ r.wrote THEN clock + 1 ELSE clock
  /\ stockEntries' = handlerList(op.kind, op.id, op.arg, r.value, r.ok, stockEntries)
  /\ isLoading' = IF op.kind \in {"load", "add"} THEN FALSE ELSE isLoading
  /\ isInitializing' = IF op.kind = "load" THEN FALSE ELSE isInitializing
  /\ error' = IF op.kind = "load" /\ ~r.ok THEN TRUE ELSE error
  /\ pending' = pending \ {op}
  /\ last' = [opn |-> op.opn,
              kind |-> op.kind,
              id |-> IF op.kind = "add" /\ r.ok THEN nextId ELSE op.id,
              arg |-> op.arg,
              attempts |-> op.attempt,
              waited |-> op.waited,
              result |-> IF r.ok THEN "resolved" ELSE "rejected",
              err |-> r.err.msg,
              cause |-> r.cause,
              emptyBefore |-> DOMAIN store = {}]
  /\ seenClosed' = seenClosed \cup ClosedIds(stockEntries')
  /\ UNCHANGED <<otherVars, env, opCount>>

\* withRetry: operation() returns
AttemptResolves(op, outcome) ==
  /\ op \in pending
  /\ \E r \in {RunBody(op, outcome)} :
       /\ r.ok
       /\ Finish(op, r)

\* withRetry: operation() throws and the catch block rethrows
AttemptRejects(op, outcome) ==
  /\ op \in pending
  /\ \E r \in {RunBody(op, outcome)} :
       /\ ~r.ok
       /\ withRetryCatch(r.err, op.attempt, MAX_RETRIES) = "throw"
       /\ Finish(op, r)

\* withRetry: operation() throws, the catch block waits delay(RETRY_DELAY,
\* attempt) and the loop goes on to the next attempt
AttemptRetries(op, outcome) ==
  /\ op \in pending
  /\ \E r \in {RunBody(op, outcome)} :
       /\ ~r.ok
       /\ withRetryCatch(r.err, op.attempt, MAX_RETRIES) = "retry"
       /\ pending' =
            (pending \ {op}) \cup
              {[op EXCEPT
                  !.attempt = op.attempt + 1,
                  !.waited = op.waited + delay(RETRY_DELAY, op.attempt)]}
  /\ last' = NoHandler
  /\ UNCHANGED <<otherVars, env, store, nextId, clock, stockEntries, isLoading, isInitializing,
                 error, opCount, seenClosed>>

Next ==
  \/ \E newEntry \in AddInputs : HandleAddEntry(newEntry)
  \/ \E i \in 1..MaxDocs + 1 : HandleDeleteEntry(i)
  \/ \E i \in 1..MaxDocs + 1 : HandleEditEntry(i)
  \/ \E i \in 1..MaxDocs + 1, text \in SellPriceTexts, date \in CalendarDates \cup {clock} :
       SellDialogSubmit(i, text, date)
  \/ Reload
  \/ \E op \in pending, outcome \in StoreOutcomes : AttemptResolves(op, outcome)
  \/ \E op \in pending, outcome \in StoreOutcomes : AttemptRejects(op, outcome)
  \/ \E op \in pending, outcome \in StoreOutcomes : AttemptRetries(op, outcome)

Spec == Init /\ [][Next]_vars

\* ------------------------------------------------------------------- claims
Mutations == {"add", "edit", "close", "delete"}

\* what getEntries returns for document k, if it resolves and returns it
Fetched(k) ==
  LET r == getEntriesBody("ok", store)
  IN {r.value[i] : i \in {j \in 1..Len(r.value) : r.value[j].id = DocId(k)}}

\* C1: after a close has succeeded, getEntries returns the entry with status
\* Closed, profitLoss = priceSell - priceBuy and the two hit flags, the values
\* the dashboard list shows right after the close.
C1_CloseIsDurable ==
  (last.kind = "close" /\ last.result = "resolved" /\ getEntriesBody("ok", store).ok)
    => \E e \in Fetched(last.id) :
         /\ e.status = Str(<<"Closed">>)
         /\ e.profitLoss = Num(last.arg.priceSell.n - last.arg.priceBuy.n)
         /\ e.hitTarget =
              Bool(last.arg.priceSell.n * 100
                     >= last.arg.priceBuy.n * (100 + last.arg.targetPercent.n))
         /\ e.hitStopLoss =
              Bool(last.arg.priceSell.n * 100
                     <= last.arg.priceBuy.n * (100 - last.arg.stopLossPercent.n))

\* C2: a store call that failed with permission-denied, not-found or
\* already-exists is not attempted again: no step is the retry of an attempt
\* that failed with one of these codes.
C2_PermanentErrorNotRetried ==
  [][\A op \in pending :
       \A code \in {"permission-denied", "not-found", "already-exists"} :
         ~AttemptRetries(op, code)]_vars

\* C3: a store operation whose attempts fail with unavailable or
\* failed-precondition is attempted exactly MAX_RETRIES times (5 in
\* production, 3 otherwise) and then rejects: no call is ever in an attempt
\* beyond MAX_RETRIES, and a call rejects with one of these codes only in
\* attempt MAX_RETRIES, so every earlier such failure was followed by
\* another attempt.
C3_TransientRetryBound ==
  /\ \A op \in pending : op.attempt <= (IF env = "production" THEN 5 ELSE 3)
  /\ (last.result = "rejected" /\ last.cause \in TransientCodes)
       => last.attempts = (IF env = "production" THEN 5 ELSE 3)

C3_Witness ==
  /\ last.result = "rejected"
  /\ last.cause = "unavailable"
  /\ env = "production"
  /\ last.attempts = 5
  /\ last.kind = "add"

\* C4: an addEntry or updateEntry whose input fails validation runs its
\* body once and rejects without a retry or a backoff delay.
C4_ValidationNotRetried ==
  (last.kind \in {"add", "edit", "close"} /\ last.cause = "validation")
    => last.attempts = 1 /\ last.waited = 0

\* the inputs C5 is about, in the claim's own words
C5_BadNumber(v) == v.t # "num" \/ v.n <= 0
C5_BadReason(v) == v.t # "str" \/ \A i \in 1..Len(v.s) : v.s[i] = " "
C5_BadConfidence(v) == v.t # "str" \/ Trim(v.s) \notin {<<"Low">>, <<"Medium">>, <<"High">>}
C5_Invalid(entry) ==
  \/ C5_BadNumber(Read(entry.priceBuy))
  \/ C5_BadNumber(Read(entry.targetPercent))
  \/ C5_BadNumber(Read(entry.stopLossPercent))
  \/ C5_BadReason(Read(entry.reason))
  \/ C5_BadConfidence(Read(entry.confidence))

\* C5: addEntry with a non-positive or non-numeric priceBuy, targetPercent or
\* stopLossPercent, a blank reason or a confidence outside Low/Medium/High
\* rejects, and no attempt of it changes the store.
C5_InvalidAddWritesNothing ==
  /\ []((last.kind = "add" /\ C5_Invalid(last.arg)) => last.result = "rejected")
  /\ [][\A op \in pending :
          (op.kind = "add" /\ C5_Invalid(op.arg) /\ op \notin pending')
            => store' = store]_vars

C5_Witness ==
  /\ last.kind = "add"
  /\ last.arg.priceBuy = Num(0)
  /\ last.result = "rejected"
  /\ last.attempts = MAX_RETRIES

\* the trimmed value of an input field
C6_Trimmed(v) == IF v.t = "str" THEN Str(Trim(v.s)) ELSE v

C6_UserFieldsMatch(e, input) ==
  /\ e.stockName = C6_Trimmed(input.stockName)
  /\ e.symbol = C6_Trimmed(input.symbol)
  /\ e.reason = C6_Trimmed(input.reason)
  /\ e.confidence = C6_Trimmed(input.confidence)
  /\ e.priceBuy = input.priceBuy
  /\ e.targetPercent = input.targetPercent
  /\ e.stopLossPercent = input.stopLossPercent
  /\ e.status = Str(<<"Active">>)

\* C6 as stated: from an empty store, a successful addEntry followed by
\* getEntries yields exactly one record with the trimmed input's fields,
\* status Active and riskReward = targetPercent / stopLossPercent.
C6_RoundTripExact ==
  (last.kind = "add" /\ last.result = "resolved" /\ last.emptyBefore)
    => LET r == getEntriesBody("ok", store)
       IN /\ r.ok
          /\ Len(r.value) = 1
          /\ C6_UserFieldsMatch(r.value[1], last.arg)
          /\ r.value[1].chartLink = C6_Trimmed(last.arg.chartLink)
          /\ r.value[1].riskReward.t = "num"
          /\ r.value[1].riskReward.n * last.arg.stopLossPercent.n
               = 100 * last.arg.targetPercent.n

\* targetPercent / stopLossPercent rounded to two decimals, in hundredths
C6_IsRounded(rr, t, l) == 200 * t - l < 2 * rr * l /\ 2 * rr * l <= 200 * t + l

\* C6 amended: as stated, except that riskReward is the ratio rounded to two
\* decimals and is absent when that is zero, and chartLink is the trimmed
\* input when that is not empty and absent otherwise.
C6_RoundTripRounded ==
  (last.kind = "add" /\ last.result = "resolved" /\ last.emptyBefore)
    => LET r == getEntriesBody("ok", store)
           t == last.arg.targetPercent.n
           l == last.arg.stopLossPercent.n
           link == C6_Trimmed(last.arg.chartLink)
       IN /\ r.ok
          /\ Len(r.value) = 1
          /\ C6_UserFieldsMatch(r.value[1], last.arg)
          /\ r.value[1].chartLink = (IF link.t = "str" /\ link.s # <<>> THEN link ELSE Undef)
          /\ \E rr \in 0..(100 * t) :
               /\ C6_IsRounded(rr, t, l)
               /\ r.value[1].riskReward = (IF rr = 0 THEN Undef ELSE Num(rr))

C6_Witness ==
  /\ last.kind = "add"
  /\ last.result = "resolved"
  /\ last.emptyBefore
  /\ last.arg = UntrimmedInput
  /\ Len(getEntriesBody("ok", store).value) = 1

\* C7: an entry the list has shown as Closed is never shown as Active again.
C7_NoReopening ==
  \A i \in 1..Len(stockEntries) :
    IdOf(stockEntries[i]) \in seenClosed
      => Read(stockEntries[i].status) # Str(<<"Active">>)

\* C8: a close whose sell date is earlier than the entry's buy date is
\* rejected.
C8_EarlySellRejected ==
  (last.kind = "close" /\ last.arg.dateSell.n < last.arg.dateBuy.n)
    => last.result = "rejected"

\* C9: no step of a mutation that fails (a failed attempt that is retried,
\* or the rejection that ends the handler) changes the rendered list.
C9_FailedMutationKeepsList ==
  [][\A op \in pending :
       (/\ op.kind \in Mutations
        /\ op \notin pending'
        /\ ~(isInitializing' /\ ~isInitializing)
        /\ ~(last'.opn = op.opn /\ last'.result = "resolved"))
         => stockEntries' = stockEntries]_vars

C9_Witness ==
  /\ last.kind = "delete"
  /\ last.result = "rejected"
  /\ \E i \in 1..Len(stockEntries) : IdOf(stockEntries[i]) = last.id

\* a document that lacks a required field or holds a foreign enumeration
\* value
C10_Malformed(d) ==
  \/ \E f \in RequiredFields : d[f] \in {NoKey, Null}
  \/ d.confidence.t = "str" /\ d.confidence.s \notin {<<"Low">>, <<"Medium">>, <<"High">>}
  \/ d.status.t = "str" /\ d.status.s \notin {<<"Active">>, <<"Closed">>}

\* C10: getEntries does not resolve while the store holds a malformed record.
C10_AllOrNothing ==
  (last.kind = "load" /\ last.result = "resolved")
    => \A k \in DOMAIN store : ~C10_Malformed(store[k])

\* ===================================================== the live price view
\* LivePrice exists in two revisions: one fed by a WebSocket
\* (components/LivePrice.tsx) and one fed by useSWR on /api/stock/:symbol.
\* Every number carries the set of symbols whose data it was computed from.
Symbols == {"A", "B"}

\* a number computed from the data of the symbols in `of`
Quoted(n, of) == [t |-> "num", n |-> n, of |-> of]

\* JavaScript's non-finite results, with the same bookkeeping
QuotedNaN(of) == [t |-> "nan", of |-> of]
QuotedInfinity(of) == [t |-> "infinity", of |-> of]

\* nothing is shown in this place
NotShown == [t |-> "undefined", of |-> {}]

\* a - b in JavaScript
JsMinus(a, b) ==
  IF a.t = "num" /\ b.t = "num" THEN Quoted(a.n - b.n, a.of \cup b.of)
  ELSE QuotedNaN(a.of \cup b.of)

\* (a / b) * 100 in JavaScript; a finite quotient is cut to a whole percent
JsPercentOf(a, b) ==
  IF a.t # "num" \/ b.t # "num" THEN QuotedNaN(a.of \cup b.of)
  ELSE IF b.n = 0
    THEN (IF a.n = 0 THEN QuotedNaN(a.of \cup b.of) ELSE QuotedInfinity(a.of \cup b.of))
  ELSE Quoted((a.n * 100) \div b.n, a.of \cup b.of)

\* Number(v) of a field of the quote
JsNumber(v, of) == IF v.t = "num" THEN Quoted(v.n, of) ELSE QuotedNaN(of)

\* the prices the feed sends
LivePrices == {10, 12}

\* a message on the WebSocket: { symbol, price }
WsMessages == {[symbol |-> sym, price |-> n] : sym \in Symbols, n \in LivePrices}

\* the meta object of a chart payload, as /api/stock/:symbol passes it on:
\* regularMarketPrice was checked by the server, previousClose was not
QuoteMetas ==
  {[symbol |-> sym, regularMarketPrice |-> Num(n), previousClose |-> c] :
     sym \in Symbols, n \in LivePrices, c \in {Num(8), Num(0), Undef}}

\* what a fetch of /api/stock/:symbol settles with
NoData == [t |-> "none"]
FetchError == [t |-> "error"]

\* WebSocket revision, mounted with symbol A: useState(null), useState(0), and
\* the effect has opened a socket whose handler closes over symbol and price
LiveWsMounted ==
  [rev |-> "ws", symbol |-> "A", price |-> Null, priceChange |-> Quoted(0, {}),
   handler |-> [symbol |-> "A", price |-> Null],
   switched |-> FALSE, updated |-> FALSE]

\* SWR revision, mounted with symbol A: nothing cached, the first fetch is out
LiveSwrMounted ==
  [rev |-> "swr", symbol |-> "A", cache |-> [sym \in Symbols |-> NoData],
   inFlight |-> {"A"}, switched |-> FALSE, updated |-> FALSE]

\* the dashboard is not mounted: the specification at hand runs another part
LedgerNotRunning ==
  /\ env = "development"
  /\ store = EmptyStore
  /\ nextId = 1
  /\ clock = 1
  /\ stockEntries = <<>>
  /\ isLoading = FALSE
  /\ isInitializing = FALSE
  /\ error = FALSE
  /\ pending = {}
  /\ opCount = 0
  /\ last = NoHandler
  /\ seenClosed = {}

LiveInit ==
  /\ live \in {LiveWsMounted, LiveSwrMounted}
  /\ LedgerNotRunning
  /\ stockRoute = NotRunning
  /\ searchRoute = NotRunning
  /\ limiter = NotRunning
  /\ symbolInput = NotRunning
  /\ searchBox = NotRunning /\ firebase = NotRunning

LiveFrame == UNCHANGED <<ledgerVars, stockRoute, searchRoute, limiter, symbolInput, searchBox, firebase>>

\* the parent passes another symbol: selectedSymbol goes from A to B.  With
\* useSWR the key changes in the same render, and a fetch of the new key
\* starts.
LiveSwitch ==
  /\ live.symbol = "A"
  /\ live' =
       IF live.rev = "ws"
         THEN [live EXCEPT !.symbol = "B", !.switched = TRUE]
         ELSE [live EXCEPT !.symbol = "B", !.switched = TRUE,
                           !.inFlight = live.inFlight \cup {"B"}]
  /\ LiveFrame

\* WebSocket revision, ws.onmessage of the socket that is open: the handler
\* reads the symbol and price its effect closed over
LiveWsMessage(data) ==
  /\ live.rev = "ws"
  /\ data.symbol = live.handler.symbol
  /\ LET received == Quoted(data.price, {data.symbol})
         before == IF Truthy(live.handler.price) THEN live.handler.price ELSE received
     IN live' = [live EXCEPT
                   !.priceChange = JsMinus(received, before),
                   !.price = received,
                   !.updated = live.updated \/ (live.switched /\ data.symbol = "B")]
  /\ LiveFrame

\* WebSocket revision, the effect with dependencies [symbol, price]: after a
\* render that changed one of them the cleanup closes the socket and a new
\* one is opened, with a handler over the current symbol and price
LiveWsEffect ==
  /\ live.rev = "ws"
  /\ live.handler # [symbol |-> live.symbol, price |-> live.price]
  /\ live' = [live EXCEPT !.handler = [symbol |-> live.symbol, price |-> live.price]]
  /\ LiveFrame

\* SWR revision, refreshInterval: the current key is fetched again
LiveSwrRefresh ==
  /\ live.rev = "swr"
  /\ live.symbol \notin live.inFlight
  /\ live' = [live EXCEPT !.inFlight = live.inFlight \cup {live.symbol}]
  /\ LiveFrame

\* SWR revision, a fetch settles: its result is cached under its own key
LiveSwrSettle(sym, result) ==
  /\ live.rev = "swr"
  /\ sym \in live.inFlight
  /\ result \in QuoteMetas => result.symbol = sym
  /\ live' = [live EXCEPT
                !.cache[sym] = result,
                !.inFlight = live.inFlight \ {sym},
                !.updated = live.updated
                              \/ (live.switched /\ sym = "B" /\ result \in QuoteMetas)]
  /\ LiveFrame

\* Math.abs
JsAbs(a) == IF a.t = "num" /\ a.n < 0 THEN Quoted(0 - a.n, a.of) ELSE a

\* what the component renders: the price, the price change and the percent
LiveDisplayed ==
  IF live.rev = "ws"
    THEN IF ~Truthy(live.price)
           THEN [price |-> NotShown, change |-> NotShown, percent |-> NotShown]
           ELSE [price |-> live.price, change |-> JsAbs(live.priceChange),
                 percent |-> NotShown]
    ELSE LET meta == live.cache[live.symbol]
             of == {live.symbol}
             currentPrice == JsNumber(meta.regularMarketPrice, of)
             previousClose == JsNumber(meta.previousClose, of)
             priceChange == JsMinus(currentPrice, previousClose)
             priceChangePercent == JsPercentOf(priceChange, previousClose)
         IN IF meta \notin QuoteMetas
              THEN [price |-> NotShown, change |-> NotShown, percent |-> NotShown]
              ELSE [price |-> currentPrice, change |-> JsAbs(priceChange),
                    percent |-> JsAbs(priceChangePercent)]

LiveNext ==
  \/ LiveSwitch
  \/ \E data \in WsMessages : LiveWsMessage(data)
  \/ LiveWsEffect
  \/ LiveSwrRefresh
  \/ \E sym \in Symbols, result \in QuoteMetas \cup {FetchError} :
       LiveSwrSettle(sym, result)

SpecLive == LiveInit /\ [][LiveNext]_vars

\* C11: once the symbol has changed from A to B and B's first update has
\* arrived, the displayed price and price change are computed from B's data
\* only.
C11_OnlyNewSymbolShown ==
  (live # NotRunning /\ live.switched /\ live.updated)
    => /\ LiveDisplayed.price.of \subseteq {"B"}
       /\ LiveDisplayed.change.of \subseteq {"B"}

\* C20: the view shows no NaN and no Infinity, and no price change or percent
\* at all when the quote's previousClose is zero or absent.
C20_NoChangeWithoutPreviousClose ==
  (live # NotRunning /\ live.rev = "swr" /\ live.cache[live.symbol] \in QuoteMetas)
    => /\ LiveDisplayed.change.t \in {"num", "undefined"}
       /\ LiveDisplayed.percent.t \in {"num", "undefined"}
       /\ live.cache[live.symbol].previousClose \in {Num(0), Undef}
            => /\ LiveDisplayed.change = NotShown
               /\ LiveDisplayed.percent = NotShown

\* ============================================== GET /api/stock/:symbol
\* server/routes.ts.  A symbol is a sequence of characters.
MaxSymbolLen == 3

UpperLetters == {"A", "N", "S"}

\* all strings over chars of length 1..n
RECURSIVE StringsUpTo(_, _)
StringsUpTo(chars, n) ==
  IF n = 0 THEN {}
  ELSE LET shorter == StringsUpTo(chars, n - 1)
       IN {<<c>> : c \in chars} \cup shorter \cup {Append(w, c) : w \in shorter, c \in chars}

\* String.prototype.endsWith
EndsWith(str, suffix) ==
  Len(str) >= Len(suffix)
    /\ SubSeq(str, Len(str) - Len(suffix) + 1, Len(str)) = suffix

DotNS == <<".", "N", "S">>

\* /^[A-Z]+$/
IsUpperWord(str) == str # <<>> /\ \A i \in 1..Len(str) : str[i] \in UpperLetters

\* /^[0-9]{6}$/
IsSixDigits(str) == Len(str) = 6 /\ \A i \in 1..6 : IsDigit(str[i])

\* routes.ts isValidStockSymbol
isValidStockSymbol(symbol) ==
  IF symbol = <<>> THEN FALSE
  ELSE LET isNSEStock == EndsWith(symbol, DotNS)
           baseSymbol == IF isNSEStock THEN SubSeq(symbol, 1, Len(symbol) - 3) ELSE symbol
       IN IF isNSEStock
            THEN IsUpperWord(baseSymbol) \/ IsSixDigits(baseSymbol)
            ELSE IsUpperWord(symbol) /\ Len(symbol) <= 5

\* the :symbol parameters tried: every short string, and longer ones around
\* the limits of the two shapes
RouteSymbols ==
  StringsUpTo(UpperLetters \cup {"a", "1", "."}, MaxSymbolLen) \cup
  {<<"A", "A", "A", "A", "A">>,
   <<"A", "A", "A", "A", "A", "A">>,
   <<"A", "A", "A", "A", "A", "A", ".", "N", "S">>,
   <<"1", "1", "1", "1", "1", "1">>,
   <<"1", "1", "1", "1", "1", "1", ".", "N", "S">>,
   <<"1", "1", "1", "1", "1", ".", "N", "S">>,
   <<"A", "1", ".", "N", "S">>,
   <<"a", ".", "N", "S">>,
   <<"A", ".", "N", "S", ".", "N", "S">>,
   <<"A", ".", "N", "S", "A">>}

\* --- the upstream's answers
\* an array of numbers
Series(values) == [t |-> "series", v |-> values]

\* result[0] of a chart payload: meta, timestamp and indicators.quote[0] may
\* each be missing, and quote[0] may lack its close series
ChartResults ==
  {[meta |-> m, timestamp |-> ts, quote |-> q] :
     m \in {NoKey, [regularMarketPrice |-> Num(10)], [regularMarketPrice |-> Num(0)],
            [regularMarketPrice |-> NoKey]},
     ts \in {NoKey, Series(<<1, 2>>)},
     q \in {NoKey, [close |-> NoKey], [close |-> Series(<<10, 11>>)]}}

\* the body of a 200 answer: { chart: { result, error } }
YahooPayloads ==
  {[result |-> r, error |-> NoKey] : r \in ChartResults \cup {NoKey}}
    \cup {[result |-> NoKey, error |-> [code |-> "Not Found", description |-> "No data found"]]}

\* what axios.get settles with
UpstreamOutcomes ==
  {[t |-> "ok", status |-> 200, data |-> d] : d \in YahooPayloads}
    \cup {[t |-> "http", status |-> st, data |-> Undef] : st \in {400, 404, 429, 500, 503}}
    \cup {[t |-> "http", status |-> 404,
           data |-> [result |-> NoKey,
                     error |-> [code |-> "Not Found", description |-> "No data found"]]]}
    \cup {[t |-> "timeout", status |-> 0, data |-> Undef],
          [t |-> "network", status |-> 0, data |-> Undef]}

\* routes.ts validateYahooResponse: TRUE when it returns, FALSE when it throws
validateYahooResponse(data) ==
  /\ HasKey(data.result)
  /\ HasKey(data.result.meta)
  /\ Truthy(Read(data.result.meta.regularMarketPrice))
  /\ HasKey(data.result.timestamp)
  /\ HasKey(data.result.quote)

\* --- what is thrown and what is answered
\* a thrown value: an AxiosError, an Error, or a bare object
Thrown(kind, code, status, data) ==
  [kind |-> kind, code |-> code, status |-> status, data |-> data]

\* res.status(status).json({ error, details, code })
ErrorJson(status, code) ==
  [status |-> status, shape |-> "error json", code |-> code, data |-> Undef]

\* res.status(status).json(data)
DataJson(status, data) ==
  [status |-> status, shape |-> "data", code |-> "none", data |-> data]

\* the function the stock handler passes to withBackoff, given what axios.get
\* settled with
stockFetch(outcome) ==
  IF outcome.t = "ok"
    THEN IF HasKey(outcome.data.error)
           THEN [ok |-> FALSE, data |-> Undef,
                 thrown |-> Thrown("object", "none", 404, "STOCK_NOT_FOUND")]
         ELSE IF ~validateYahooResponse(outcome.data)
           THEN [ok |-> FALSE, data |-> Undef,
                 thrown |-> Thrown("Error", "none", 0, Undef)]
         ELSE [ok |-> TRUE, data |-> outcome.data,
               thrown |-> Thrown("none", "none", 0, Undef)]
  ELSE IF outcome.t = "http"
    THEN [ok |-> FALSE, data |-> Undef,
          thrown |-> Thrown("AxiosError", "ERR_BAD_RESPONSE", outcome.status, outcome.data)]
  ELSE IF outcome.t = "timeout"
    THEN [ok |-> FALSE, data |-> Undef,
          thrown |-> Thrown("AxiosError", "ECONNABORTED", 0, Undef)]
  ELSE [ok |-> FALSE, data |-> Undef,
        thrown |-> Thrown("AxiosError", "ERR_NETWORK", 0, Undef)]

\* routes.ts backoffConfig
backoffRetries == 3
backoffInitialDelay == 1000
backoffMaxDelay == 10000
backoffFactor == 2

\* withBackoff retrying whatever the status, until the attempts run out
backoffRethrows_AnyStatusRetried(thrown, attempt) == attempt > backoffRetries

\* withBackoff's catch block: rethrow, or wait and call itself again
backoffRethrows(thrown, attempt) ==
  attempt > backoffRetries \/ thrown.status = 404 \/ thrown.status = 400

backoffDelay(attempt) ==
  LET d == backoffInitialDelay * backoffFactor ^ (attempt - 1)
  IN IF d < backoffMaxDelay THEN d ELSE backoffMaxDelay

\* the stock handler's catch block
stockCatch(thrown) ==
  IF thrown.kind = "AxiosError"
    THEN IF thrown.code = "ECONNABORTED" THEN ErrorJson(504, "TIMEOUT")
         ELSE IF thrown.status = 429 THEN ErrorJson(429, "YAHOO_RATE_LIMIT")
         ELSE IF thrown.status = 404
           THEN (IF thrown.data # Undef
                   THEN DataJson(404, thrown.data) ELSE ErrorJson(404, "NOT_FOUND"))
         ELSE ErrorJson(IF thrown.status # 0 THEN thrown.status ELSE 500, "API_ERROR")
    ELSE ErrorJson(500, "INTERNAL_ERROR")

\* --- the request's life
NoResponse == [status |-> 0, shape |-> "none", code |-> "none", data |-> Undef]
NoOutcome == [t |-> "none", status |-> 0, data |-> Undef]

\* a request for /api/stock/:symbol that reached the handler
StockRequest(symbol) ==
  [stage |-> "received", symbol |-> symbol, attempt |-> 0, requests |-> 0,
   waited |-> 0, settled |-> NoOutcome, response |-> NoResponse, sent |-> 0]

\* res.status(...).json(...) / res.json(...): one more response is sent
Send(route, answer) == [route EXCEPT !.response = answer, !.sent = @ + 1]

\* a handler whose answer before the first await is not followed by return
handlerReturns_FallsThrough(gate) == FALSE

\* return res.status(400).json(...): the handler ends with the answer of its
\* checks
handlerReturns(gate) == gate # NoResponse

stockGate_ForwardFirst(symbol) ==
  IF symbol = <<>> THEN ErrorJson(400, "MISSING_SYMBOL")
  ELSE NoResponse

\* the handler's checks before the first await: a response, or NoResponse
\* when the symbol goes on to the upstream
stockGate(symbol) ==
  IF symbol = <<>> THEN ErrorJson(400, "MISSING_SYMBOL")
  ELSE IF ~isValidStockSymbol(symbol) THEN ErrorJson(400, "INVALID_SYMBOL_FORMAT")
  ELSE NoResponse

StockInit ==
  /\ stockRoute \in {StockRequest(symbol) : symbol \in RouteSymbols}
  /\ LedgerNotRunning
  /\ live = NotRunning /\ searchRoute = NotRunning
  /\ limiter = NotRunning /\ symbolInput = NotRunning
  /\ searchBox = NotRunning /\ firebase = NotRunning

StockFrame == UNCHANGED <<ledgerVars, live, searchRoute, limiter, symbolInput, searchBox, firebase>>

\* the handler runs up to its first await: it answers 400, or calls
\* withBackoff, whose first attempt sends the upstream request
StockHandle ==
  /\ stockRoute.stage = "received"
  /\ \E gate \in {stockGate(stockRoute.symbol)} :
       stockRoute' =
         LET answered == IF gate # NoResponse THEN Send(stockRoute, gate) ELSE stockRoute
         IN IF handlerReturns(gate)
              THEN [answered EXCEPT !.stage = "responded"]
              ELSE [answered EXCEPT !.stage = "upstream", !.attempt = 1, !.requests = 1]
  /\ StockFrame

\* axios.get settles and withBackoff lets the result or the error through
\* to the handler, which answers
StockSettles(outcome) ==
  /\ stockRoute.stage = "upstream"
  /\ \E r \in {stockFetch(outcome)} :
       /\ r.ok \/ backoffRethrows(r.thrown, stockRoute.attempt)
       /\ stockRoute' =
            [Send(stockRoute, IF r.ok THEN DataJson(200, r.data) ELSE stockCatch(r.thrown))
               EXCEPT !.stage = "responded", !.settled = outcome]
  /\ StockFrame

\* axios.get fails and withBackoff waits and sends the request again
StockRetries(outcome) ==
  /\ stockRoute.stage = "upstream"
  /\ \E r \in {stockFetch(outcome)} :
       /\ ~r.ok /\ ~backoffRethrows(r.thrown, stockRoute.attempt)
       /\ stockRoute' =
            [stockRoute EXCEPT !.attempt = @ + 1, !.requests = @ + 1,
               !.waited = @ + backoffDelay(stockRoute.attempt)]
  /\ StockFrame

StockNext ==
  \/ StockHandle
  \/ \E outcome \in UpstreamOutcomes : StockSettles(outcome)
  \/ \E outcome \in UpstreamOutcomes : StockRetries(outcome)

SpecStock == StockInit /\ [][StockNext]_vars

\* the class of the failure that ended a request
StockFailureStatus(settled) ==
  IF settled.t = "timeout" THEN 504
  ELSE IF settled.status = 429 THEN 429
  ELSE IF settled.status = 404 \/ (settled.t = "ok" /\ HasKey(settled.data.error)) THEN 404
  ELSE 500

\* C12: a request that ended in a failure is answered with the status of the
\* failure's class (400 invalid symbol, 404 unknown symbol, reported by an
\* HTTP 404 or by a chart.error body, 429 upstream rate limit, 504 timeout,
\* 500 otherwise) and a JSON body {error, details, code}.
C12_StatusByFailureClass ==
  (stockRoute # NotRunning /\ stockRoute.stage = "responded"
     /\ stockRoute.response.status # 200)
    => /\ stockRoute.response.shape = "error json"
       /\ stockRoute.response.status =
            IF stockRoute.requests = 0 THEN 400
            ELSE StockFailureStatus(stockRoute.settled)

\* C13: a symbol that isValidStockSymbol rejects is answered 400
\* INVALID_SYMBOL_FORMAT and no upstream request is ever sent for it.
C13_InvalidSymbolNotForwarded ==
  (stockRoute # NotRunning /\ ~isValidStockSymbol(stockRoute.symbol))
    => /\ stockRoute.requests = 0
       /\ stockRoute.stage \in {"received", "responded"}
       /\ stockRoute.stage = "responded"
            => stockRoute.response = ErrorJson(400, "INVALID_SYMBOL_FORMAT")

C13_Witness ==
  /\ stockRoute # NotRunning
  /\ stockRoute.symbol = <<"1", "1", "1", "1", "1", ".", "N", "S">>
  /\ stockRoute.stage = "responded"
  /\ stockRoute.response.code = "INVALID_SYMBOL_FORMAT"

\* C14: a success response carries the upstream payload unchanged, and the
\* payload's first chart result has a current price, a timestamp series and
\* a close-price series.
C14_SuccessPayloadComplete ==
  (stockRoute # NotRunning /\ stockRoute.stage = "responded"
     /\ stockRoute.response.status = 200)
    => /\ stockRoute.response.data = stockRoute.settled.data
       /\ HasKey(stockRoute.response.data.result)
       /\ HasKey(stockRoute.response.data.result.meta)
       /\ Read(stockRoute.response.data.result.meta.regularMarketPrice).t = "num"
       /\ HasKey(stockRoute.response.data.result.timestamp)
       /\ HasKey(stockRoute.response.data.result.quote)
       /\ HasKey(stockRoute.response.data.result.quote.close)

\* ====================================================== GET /api/search
MaxQueryLen == 2

\* String.prototype.toUpperCase, on the characters used here
ToUpperCase(str) ==
  LET UpperChar(c) ==
        CASE c = "a" -> "A" [] c = "n" -> "N" [] c = "s" -> "S" [] OTHER -> c
  IN [i \in 1..Len(str) |-> UpperChar(str[i])]

\* replace(/[^A-Z0-9.]/g, '')
RECURSIVE KeepSymbolChars(_)
KeepSymbolChars(str) ==
  IF str = <<>> THEN <<>>
  ELSE IF Head(str) \in UpperLetters \/ IsDigit(Head(str)) \/ Head(str) = "."
    THEN <<Head(str)>> \o KeepSymbolChars(Tail(str))
  ELSE KeepSymbolChars(Tail(str))

\* the search handler's cleanQuery and searchQuery
cleanQueryOf(query) == KeepSymbolChars(ToUpperCase(Trim(query)))
searchQueryOf(cleanQuery) ==
  IF EndsWith(cleanQuery, DotNS) THEN cleanQuery ELSE cleanQuery \o DotNS

\* req.query.query: absent, a string, or an array (?query=a&query=b)
RouteQueries ==
  LET longQueries ==
        {<<"a", ".", "n", "s">>,
         <<" ", "S", " ", ".", "N", "S">>,
         <<"a", "a", "a", "a", "a", "a", "a", "a", "a", "a",
           "a", "a", "a", "a", "a", "a", "a", "a", "a", "a">>,
         <<"a", "a", "a", "a", "a", "a", "a", "a", "a", "a",
           "a", "a", "a", "a", "a", "a", "a", "a", "a", "a", "a">>}
  IN {Undef, [t |-> "array"], Str(<<>>)}
       \cup {Str(q) : q \in StringsUpTo({"a", "S", "N", " ", ".", "-"}, MaxQueryLen)
                             \cup longQueries}

\* --- the upstream's quotes
\* response.data.quotes: quotes that pass searchStocks' filter (an NSE
\* equity with a long or a short name) and quotes that do not (a US symbol, no
\* name, a fund)
QuoteLists ==
  LET Quote(symbol, longname, shortname, quoteType) ==
        [symbol |-> symbol, longname |-> longname, shortname |-> shortname,
         quoteType |-> quoteType]
      NseQuote == Quote(Str(<<"A", ".", "N", "S">>), Str(<<"A">>), Undef, "EQUITY")
      ShortNameQuote == Quote(Str(<<"S", ".", "N", "S">>), Undef, Str(<<"S">>), "EQUITY")
      UsQuote == Quote(Str(<<"A">>), Str(<<"A">>), Undef, "EQUITY")
      NamelessQuote == Quote(Str(<<"N", ".", "N", "S">>), Undef, Undef, "EQUITY")
      FundQuote == Quote(Str(<<"N", ".", "N", "S">>), Str(<<"N">>), Undef, "ETF")
  IN {<<>>, <<NseQuote>>, <<UsQuote>>, <<NamelessQuote, FundQuote>>,
      <<UsQuote, ShortNameQuote, NseQuote>>,
      [i \in 1..11 |-> NseQuote]}

SearchOutcomes ==
  {[t |-> "ok", status |-> 200, quotes |-> Series(l)] : l \in QuoteLists}
    \cup {[t |-> "ok", status |-> 200, quotes |-> Undef]}
    \cup {[t |-> "http", status |-> st, quotes |-> Undef] : st \in {400, 404, 429, 503}}
    \cup {[t |-> "timeout", status |-> 0, quotes |-> Undef],
          [t |-> "network", status |-> 0, quotes |-> Undef]}

\* searchStocks' filter and map
quoteMatches(quote) ==
  /\ Truthy(quote.symbol)
  /\ EndsWith(quote.symbol.s, DotNS)
  /\ (Truthy(quote.longname) \/ Truthy(quote.shortname))
  /\ quote.quoteType = "EQUITY"

quoteResult(quote) ==
  [symbol |-> quote.symbol,
   name |-> IF Truthy(quote.longname) THEN quote.longname ELSE quote.shortname,
   exchange |-> "NSE", market |-> "NSE"]

\* Array.prototype.filter
RECURSIVE FilterQuotes(_)
FilterQuotes(quotes) ==
  IF quotes = <<>> THEN <<>>
  ELSE IF quoteMatches(Head(quotes))
    THEN <<Head(quotes)>> \o FilterQuotes(Tail(quotes))
  ELSE FilterQuotes(Tail(quotes))

\* the function searchStocks passes to withBackoff, given what axios.get
\* settled with
searchFetch(outcome) ==
  IF outcome.t = "ok"
    THEN LET quotes == IF outcome.quotes = Undef THEN <<>> ELSE outcome.quotes.v
             kept == FilterQuotes(quotes)
             mapped == [i \in 1..Len(kept) |-> quoteResult(kept[i])]
         IN [ok |-> TRUE,
             results |-> SubSeq(mapped, 1, IF Len(mapped) < 10 THEN Len(mapped) ELSE 10),
             thrown |-> Thrown("none", "none", 0, Undef)]
  ELSE IF outcome.t = "http"
    THEN [ok |-> FALSE, results |-> <<>>,
          thrown |-> Thrown("AxiosError", "ERR_BAD_RESPONSE", outcome.status, Undef)]
  ELSE IF outcome.t = "timeout"
    THEN [ok |-> FALSE, results |-> <<>>,
          thrown |-> Thrown("AxiosError", "ECONNABORTED", 0, Undef)]
  ELSE [ok |-> FALSE, results |-> <<>>,
        thrown |-> Thrown("AxiosError", "ERR_NETWORK", 0, Undef)]

\* res.json(results), or an error body
SearchJson(status, code, results) ==
  [status |-> status, code |-> code, results |-> results]

\* the search handler's catch block
searchCatch(thrown) ==
  IF thrown.kind = "AxiosError"
    THEN IF thrown.code = "ECONNABORTED" THEN SearchJson(504, "TIMEOUT", <<>>)
         ELSE IF thrown.status = 429 THEN SearchJson(429, "YAHOO_RATE_LIMIT", <<>>)
         ELSE SearchJson(IF thrown.status # 0 THEN thrown.status ELSE 500, "API_ERROR", <<>>)
    ELSE SearchJson(500, "SEARCH_ERROR", <<>>)

\* the handler's checks before the first await: an error body, or
\* SearchJson(0, ...) when the query goes on
searchGate(query) ==
  IF query.t # "str" \/ ~Truthy(query) THEN SearchJson(400, "INVALID_QUERY", <<>>)
  ELSE IF Len(query.s) < 1 \/ Len(query.s) > 20
    THEN SearchJson(400, "INVALID_QUERY_LENGTH", <<>>)
  ELSE IF cleanQueryOf(query.s) = <<>> THEN SearchJson(400, "INVALID_CHARACTERS", <<>>)
  ELSE SearchJson(0, "none", <<>>)

\* one call of searchStocks(q, fallback)
SearchCall(q, fallback) == [q |-> q, fallback |-> fallback]

searchNeedsFallback_Never(results, fallback) == FALSE

\* if (results.length === 0) results = await searchStocks(cleanQuery, true),
\* which follows the primary search only
searchNeedsFallback(results, fallback) == results = <<>> /\ ~fallback

SearchRequest(query) ==
  [stage |-> "received", query |-> query, calls |-> <<>>, yielded |-> <<>>,
   attempt |-> 0, requests |-> 0, response |-> SearchJson(0, "none", <<>>), sent |-> 0]

SearchInit ==
  /\ searchRoute \in {SearchRequest(query) : query \in RouteQueries}
  /\ LedgerNotRunning
  /\ live = NotRunning /\ stockRoute = NotRunning
  /\ limiter = NotRunning /\ symbolInput = NotRunning
  /\ searchBox = NotRunning /\ firebase = NotRunning

SearchFrame == UNCHANGED <<ledgerVars, live, stockRoute, limiter, symbolInput, searchBox, firebase>>

\* the handler runs up to its first await: it answers 400, or calls
\* searchStocks(searchQuery)
SearchHandle ==
  /\ searchRoute.stage = "received"
  /\ \E gate \in {searchGate(searchRoute.query)} :
       searchRoute' =
         IF gate.status # 0
           THEN [Send(searchRoute, gate) EXCEPT !.stage = "responded"]
           ELSE [searchRoute EXCEPT !.stage = "upstream", !.attempt = 1, !.requests = 1,
                   !.calls = <<SearchCall(searchQueryOf(cleanQueryOf(searchRoute.query.s)),
                                          FALSE)>>]
  /\ SearchFrame

\* the primary search resolves with no result and the handler calls
\* searchStocks(cleanQuery, true)
SearchFallsBack(outcome) ==
  /\ searchRoute.stage = "upstream"
  /\ \E r \in {searchFetch(outcome)} :
       /\ r.ok
       /\ searchNeedsFallback(r.results, searchRoute.calls[Len(searchRoute.calls)].fallback)
       /\ searchRoute' =
            [searchRoute EXCEPT !.attempt = 1, !.requests = @ + 1,
               !.yielded = Append(@, r.results),
               !.calls = Append(@, SearchCall(cleanQueryOf(searchRoute.query.s), TRUE))]
  /\ SearchFrame

\* a search resolves or fails for good, and the handler answers
SearchResponds(outcome) ==
  /\ searchRoute.stage = "upstream"
  /\ \E r \in {searchFetch(outcome)} :
       /\ IF r.ok
            THEN ~searchNeedsFallback(r.results,
                                      searchRoute.calls[Len(searchRoute.calls)].fallback)
            ELSE backoffRethrows(r.thrown, searchRoute.attempt)
       /\ searchRoute' =
            [Send(searchRoute,
                  IF ~r.ok THEN searchCatch(r.thrown)
                  ELSE IF r.results = <<>> THEN SearchJson(404, "NO_RESULTS", <<>>)
                  ELSE SearchJson(200, "none", r.results))
               EXCEPT !.stage = "responded",
                      !.yielded = IF r.ok THEN Append(@, r.results) ELSE @]
  /\ SearchFrame

\* a search request fails and withBackoff waits and sends it again
SearchRetries(outcome) ==
  /\ searchRoute.stage = "upstream"
  /\ \E r \in {searchFetch(outcome)} :
       /\ ~r.ok /\ ~backoffRethrows(r.thrown, searchRoute.attempt)
       /\ searchRoute' = [searchRoute EXCEPT !.attempt = @ + 1, !.requests = @ + 1]
  /\ SearchFrame

SearchNext ==
  \/ SearchHandle
  \/ \E outcome \in SearchOutcomes : SearchFallsBack(outcome)
  \/ \E outcome \in SearchOutcomes : SearchResponds(outcome)
  \/ \E outcome \in SearchOutcomes : SearchRetries(outcome)

SpecSearch == SearchInit /\ [][SearchNext]_vars

\* C15: at most two searches are made for a request, the primary one first
\* and the fallback one exactly when the primary one yielded no result; 404
\* NO_RESULTS is answered only after both yielded none; a 200 answer carries
\* the non-empty results of the first search that yielded any.
C15_OneFallbackOnly ==
  searchRoute # NotRunning =>
    LET calls == searchRoute.calls
        yielded == searchRoute.yielded
    IN /\ Len(calls) <= 2
       /\ Len(calls) >= 1 => ~calls[1].fallback
       /\ Len(calls) = 2 <=> (Len(yielded) >= 1 /\ yielded[1] = <<>>)
       /\ Len(calls) = 2 => calls[2].fallback
       /\ searchRoute.response.code = "NO_RESULTS"
            => yielded = <<<<>>, <<>>>>
       /\ searchRoute.response.status = 200
            => /\ searchRoute.response.results # <<>>
               /\ Len(yielded) = Len(calls)
               /\ searchRoute.response.results = yielded[Len(yielded)]
               /\ \A i \in 1..(Len(yielded) - 1) : yielded[i] = <<>>

C15_Witness ==
  /\ searchRoute # NotRunning
  /\ searchRoute.stage = "responded"
  /\ Len(searchRoute.calls) = 2
  /\ searchRoute.response.code = "NO_RESULTS"

\* ======================================================== rate limiters
\* server/routes.ts apiLimiter and searchLimiter, for one client address.
\* express-rate-limit counts a request when it arrives and, with
\* skipFailedRequests, takes it off again when its response finishes with a
\* status of 400 or more.
MaxSkipped == 1

apiLimiter ==
  [name |-> "api", max |-> 150, code |-> "RATE_LIMIT_EXCEEDED", skipFailedRequests |-> TRUE]
searchLimiter ==
  [name |-> "search", max |-> 20, code |-> "SEARCH_RATE_LIMIT", skipFailedRequests |-> TRUE]

\* app.use('/api/', apiLimiter); app.use('/api/search', searchLimiter)
limitersOf(path) ==
  IF path = "search" THEN <<apiLimiter, searchLimiter>> ELSE <<apiLimiter>>

limitExceeded_OneLate(totalHits, config) == totalHits > config.max + 1

\* the limiter answers 429 itself when the hit count passes max
limitExceeded(totalHits, config) == totalHits > config.max

\* the default requestWasSuccessful
requestWasSuccessful(status) == status < 400

\* the statuses the route handlers answer with
HandlerStatuses == {200, 404}

NoRequest ==
  [path |-> "none", stage |-> "none", status |-> 0, code |-> "none",
   counted |-> {}, issuedBefore |-> [api |-> 0, search |-> 0],
   hitsBefore |-> [api |-> 0, search |-> 0]]

LimiterInit ==
  /\ limiter = [hits |-> [api |-> 0, search |-> 0],
                skipped |-> [api |-> 0, search |-> 0],
                req |-> NoRequest]
  /\ LedgerNotRunning
  /\ live = NotRunning /\ stockRoute = NotRunning
  /\ searchRoute = NotRunning /\ symbolInput = NotRunning
  /\ searchBox = NotRunning /\ firebase = NotRunning

LimiterFrame == UNCHANGED <<ledgerVars, live, stockRoute, searchRoute, symbolInput, searchBox, firebase>>

\* the requests of the window the client has issued so far, as far as the
\* model counts them: those counted and those taken off again
IssuedSoFar(name) == limiter.hits[name] + limiter.skipped[name]

\* a request arrives and runs through the limiters mounted on its path: each
\* counts it, and the first whose count passed max answers 429; otherwise
\* the request reaches the route handler
LimiterArrive(path) ==
  /\ limiter.req.stage \in {"none", "done"}
  /\ LET chain == limitersOf(path)
         hitsAfter(i) == limiter.hits[chain[i].name] + 1
         stopsAt(i) == limitExceeded(hitsAfter(i), chain[i])
         blocked == {i \in 1..Len(chain) : stopsAt(i)}
         first == IF blocked = {} THEN Len(chain)
                  ELSE CHOOSE i \in blocked : \A j \in blocked : i <= j
         counted == {chain[i].name : i \in 1..first}
     IN limiter' =
          [limiter EXCEPT
             !.hits = [n \in {"api", "search"} |-> IF n \in counted THEN @[n] + 1 ELSE @[n]],
             !.req = [path |-> path,
                      stage |-> IF blocked = {} THEN "handler" ELSE "limited",
                      status |-> IF blocked = {} THEN 0 ELSE 429,
                      code |-> IF blocked = {} THEN "none" ELSE chain[first].code,
                      counted |-> counted,
                      issuedBefore |-> [n \in {"api", "search"} |-> IssuedSoFar(n)],
                      hitsBefore |-> limiter.hits]]
  /\ LimiterFrame

\* the response of the pending request finishes with the given status: a
\* failed one is taken off the counts of the limiters that counted it
LimiterFinished(status) ==
  LET failed == ~requestWasSuccessful(status)
      onPath == {l.name : l \in {limitersOf(limiter.req.path)[i] :
                                   i \in 1..Len(limitersOf(limiter.req.path))}}
      bump(n) == IF limiter.skipped[n] < MaxSkipped
                   THEN limiter.skipped[n] + 1 ELSE limiter.skipped[n]
  IN limiter' =
       [limiter EXCEPT
          !.hits = [n \in {"api", "search"} |->
                      IF failed /\ n \in limiter.req.counted /\ @[n] > 0
                        THEN @[n] - 1 ELSE @[n]],
          !.skipped = [n \in {"api", "search"} |->
                         IF n \in onPath /\ (failed \/ n \notin limiter.req.counted)
                           THEN bump(n) ELSE @[n]],
          !.req = [limiter.req EXCEPT !.stage = "done", !.status = status]]

\* the limiter's own 429 finishes
LimiterRejected ==
  /\ limiter.req.stage = "limited"
  /\ LimiterFinished(429)
  /\ LimiterFrame

\* the route handler answers
LimiterAnswered(status) ==
  /\ limiter.req.stage = "handler"
  /\ LimiterFinished(status)
  /\ LimiterFrame

\* a limiter's window ends: its store forgets the client's hits
LimiterWindowEnds(name) ==
  /\ limiter.hits[name] + limiter.skipped[name] > 0
  /\ limiter' = [limiter EXCEPT !.hits[name] = 0, !.skipped[name] = 0]
  /\ LimiterFrame

LimiterNext ==
  \/ \E path \in {"stock", "search"} : LimiterArrive(path)
  \/ LimiterRejected
  \/ \E status \in HandlerStatuses : LimiterAnswered(status)
  \/ \E name \in {"api", "search"} : LimiterWindowEnds(name)

SpecLimiter == LimiterInit /\ [][LimiterNext]_vars

\* the limiter's own answer, which keeps the request from the handler
C16_Turned429(req) ==
  /\ req.stage \in {"limited", "done"}
  /\ req.status = 429
  /\ req.code \in {"RATE_LIMIT_EXCEEDED", "SEARCH_RATE_LIMIT"}

\* C16: a request that arrives after the client has issued max requests in
\* the window (150 on /api/, 20 on /api/search) is answered 429 with code
\* RATE_LIMIT_EXCEEDED or SEARCH_RATE_LIMIT and does not reach the handler.
C16_IssuedMaxThenRejected ==
  (limiter # NotRunning /\ limiter.req # NoRequest
     /\ \E l \in {limitersOf(limiter.req.path)[i] :
                    i \in 1..Len(limitersOf(limiter.req.path))} :
          limiter.req.issuedBefore[l.name] >= l.max)
    => C16_Turned429(limiter.req)

\* C16, amended: a request that arrives when max requests of the window are
\* counted, that is were answered with a status below 400 or are unanswered,
\* is answered 429 with the code of the first such limiter on its path and
\* does not reach the handler.
C16_CountedMaxThenRejected ==
  (limiter # NotRunning /\ limiter.req # NoRequest
     /\ \E l \in {limitersOf(limiter.req.path)[i] :
                    i \in 1..Len(limitersOf(limiter.req.path))} :
          limiter.req.hitsBefore[l.name] >= l.max)
    => /\ C16_Turned429(limiter.req)
       /\ limiter.req.code =
            IF limiter.req.hitsBefore.api >= apiLimiter.max
              THEN apiLimiter.code ELSE searchLimiter.code

C16_Witness ==
  /\ limiter # NotRunning
  /\ limiter.req.path = "search"
  /\ limiter.req.hitsBefore.search >= searchLimiter.max
  /\ limiter.req.stage = "done"
  /\ limiter.req.code = "SEARCH_RATE_LIMIT"

\* ========================================================== StockSearch
\* The two revisions of the symbol input: StockSearch.tsx ("gated", whose
\* handleSubmit validates first) and part_000 ("plain", handleSearch).
MaxInputLen == 3

\* what the user can put into the input field
TypedInputs ==
  StringsUpTo({"a", "S", "N", "1", ".", "-"}, MaxInputLen) \cup
  {<<>>,
   <<"1", "1", "1", "1", "1", "1">>,
   <<"1", "1", "1", "1", "1", "1", ".", "N", "S">>,
   <<"a", "a", "a", "a", "a", "a">>,
   <<"a", ".", "n", "s">>,
   <<"S", ".", "N", "S", ".", "N", "S">>,
   <<"-", "a", " ", "1", ".", "n", "s">>}

\* handleInputChange: replace(/[^A-Za-z0-9.]/g, '').toUpperCase()
inputValueOf(typed) == KeepSymbolChars(ToUpperCase(typed))

\* /^[A-Z\d]+$/i on an uppercased string
IsAlphanumeric(str) ==
  str # <<>> /\ \A i \in 1..Len(str) : str[i] \in UpperLetters \/ IsDigit(str[i])

\* StockSearch.tsx validateSymbol(symbol).isValid
validateSymbol(symbol) ==
  /\ symbol # <<>>
  /\ \/ IsSixDigits(symbol) \/ IsUpperWord(symbol)
     \/ (IsUpperWord(symbol) /\ Len(symbol) <= 5)

suffixRuleApplies_Always(rev, symbol) == TRUE

\* the condition under which '.NS' is appended
suffixRuleApplies(rev, symbol) ==
  /\ IF rev = "gated" THEN IsSixDigits(symbol) \/ IsUpperWord(symbol)
                      ELSE IsAlphanumeric(symbol)
  /\ ~EndsWith(symbol, DotNS)

\* formattedSymbol of handleSubmit and of handleSearch
formattedSymbol(rev, search) ==
  LET symbol == ToUpperCase(search)
  IN IF suffixRuleApplies(rev, symbol) THEN symbol \o DotNS ELSE symbol

\* whether the submit handler goes on to onSelect
submitAccepted(rev, search) ==
  IF rev = "gated" THEN validateSymbol(ToUpperCase(search)) ELSE search # <<>>

\* strip, uppercase, suffix: what a typed string is turned into
normalize(rev, typed) == formattedSymbol(rev, inputValueOf(typed))

NothingSelected == [t |-> "nothing"]

NormalizeInit ==
  /\ symbolInput \in
       {[rev |-> rev, stage |-> "typing", typed |-> typed, search |-> <<>>, round |-> 1,
         selected |-> NothingSelected, first |-> NothingSelected] :
          rev \in {"gated", "plain"}, typed \in TypedInputs}
  /\ LedgerNotRunning
  /\ live = NotRunning /\ stockRoute = NotRunning
  /\ searchRoute = NotRunning /\ limiter = NotRunning
  /\ searchBox = NotRunning /\ firebase = NotRunning

NormalizeFrame ==
  UNCHANGED <<ledgerVars, live, stockRoute, searchRoute, limiter, searchBox, firebase>>

\* handleInputChange
HandleInputChange ==
  /\ symbolInput.stage = "typing"
  /\ symbolInput' = [symbolInput EXCEPT !.stage = "changed",
                                        !.search = inputValueOf(symbolInput.typed)]
  /\ NormalizeFrame

\* handleSubmit / handleSearch calls onSelect(formattedSymbol)
SubmitSelects ==
  /\ symbolInput.stage = "changed"
  /\ submitAccepted(symbolInput.rev, symbolInput.search)
  /\ symbolInput' =
       [symbolInput EXCEPT !.stage = "selected",
          !.selected = Str(formattedSymbol(symbolInput.rev, symbolInput.search))]
  /\ NormalizeFrame

\* handleSubmit / handleSearch returns early
SubmitRejects ==
  /\ symbolInput.stage = "changed"
  /\ ~submitAccepted(symbolInput.rev, symbolInput.search)
  /\ symbolInput' = [symbolInput EXCEPT !.stage = "rejected", !.selected = NothingSelected]
  /\ NormalizeFrame

\* the user puts the selected symbol into the input again
TypeSelectedAgain ==
  /\ symbolInput.stage = "selected"
  /\ symbolInput.round = 1
  /\ symbolInput' = [symbolInput EXCEPT !.stage = "typing", !.round = 2,
                                        !.typed = symbolInput.selected.s,
                                        !.first = symbolInput.selected]
  /\ NormalizeFrame

NormalizeNext ==
  \/ HandleInputChange
  \/ SubmitSelects
  \/ SubmitRejects
  \/ TypeSelectedAgain

SpecNormalize == NormalizeInit /\ [][NormalizeNext]_vars

\* C17: normalizing (strip, uppercase, suffix) a normalized symbol changes
\* nothing: normalize(normalize(s)) = normalize(s) for every typed string;
\* a symbol selected from a selected symbol is that symbol, and an input that
\* ends in .NS is selected as it is.
C17_NormalizeIdempotent ==
  symbolInput # NotRunning =>
    /\ normalize(symbolInput.rev, normalize(symbolInput.rev, symbolInput.typed))
         = normalize(symbolInput.rev, symbolInput.typed)
    /\ symbolInput.selected # NothingSelected
         => /\ symbolInput.selected.s = normalize(symbolInput.rev, symbolInput.typed)
            /\ EndsWith(symbolInput.search, DotNS)
                 => symbolInput.selected.s = symbolInput.search
            /\ symbolInput.round = 2 => symbolInput.selected = symbolInput.first

C17_Witness ==
  /\ symbolInput # NotRunning
  /\ symbolInput.round = 2
  /\ symbolInput.stage = "selected"
  /\ symbolInput.selected = Str(<<"1", "1", "1", "1", "1", "1", ".", "N", "S">>)

\* ========================================= the ledger: ratio and hit flags
\* C18 as stated: the riskReward that a successful addEntry stores and
\* returns equals targetPercent / stopLossPercent.
C18_RiskRewardExact ==
  (last.kind = "add" /\ last.result = "resolved")
    => LET stored == store[last.id].riskReward
           returned == stockEntries[1].riskReward
       IN /\ stored.t = "num"
          /\ stored.n * last.arg.stopLossPercent.n = 100 * last.arg.targetPercent.n
          /\ returned = stored

\* C18 amended: the riskReward that a successful addEntry stores and returns
\* is targetPercent / stopLossPercent rounded to two decimals.
C18_RiskRewardRounded ==
  (last.kind = "add" /\ last.result = "resolved")
    => LET stored == store[last.id].riskReward
           returned == stockEntries[1].riskReward
       IN /\ stored.t = "num"
          /\ C6_IsRounded(stored.n, last.arg.targetPercent.n, last.arg.stopLossPercent.n)
          /\ returned = stored

C18_Witness ==
  /\ last.kind = "add"
  /\ last.result = "resolved"
  /\ last.arg.targetPercent = Num(10)
  /\ last.arg.stopLossPercent = Num(6)
  /\ stockEntries[1].riskReward = Num(167)

\* what the claim says of the entry a close builds: the flags follow the
\* target price priceBuy * (1 + t/100) and the stop-loss price
\* priceBuy * (1 - l/100), and are not both set
C19_FlagsFollowPrices(e) ==
  LET priceSell == e.priceSell.n
      priceBuy == e.priceBuy.n
      t == e.targetPercent.n
      l == e.stopLossPercent.n
  IN (priceBuy > 0 /\ t > 0 /\ l > 0)
       => /\ e.hitTarget = Bool(priceSell * 100 >= priceBuy * (100 + t))
          /\ e.hitStopLoss = Bool(priceSell * 100 <= priceBuy * (100 - l))
          /\ ~(e.hitTarget = Bool(TRUE) /\ e.hitStopLoss = Bool(TRUE))

\* C19: every entry a close computes has hitTarget set exactly when
\* priceSell >= targetPrice and hitStopLoss exactly when priceSell <=
\* stopLossPrice, and never both.
C19_HitFlags ==
  /\ \A op \in pending : op.kind = "close" => C19_FlagsFollowPrices(op.arg)
  /\ last.kind = "close" => C19_FlagsFollowPrices(last.arg)

C19_Witness ==
  /\ last.kind = "close"
  /\ last.result = "resolved"
  /\ last.arg.priceSell = Num(95)
  /\ last.arg.hitStopLoss = Bool(TRUE)
  /\ last.arg.hitTarget = Bool(FALSE)

\* ================================== GET /api/stock/:symbol: the backoff
\* C21: the upstream call is made at most 4 times, retry k follows a wait
\* of min(1000 * 2^(k-1), 10000) ms, a call that keeps failing with a
\* retryable error is answered from its last error after the fourth call,
\* and no call that failed with 400 or 404 is made again.
C21_BackoffBound ==
  /\ [](stockRoute # NotRunning =>
          /\ stockRoute.requests <= 4
          /\ stockRoute.requests = stockRoute.attempt
          /\ stockRoute.waited =
               (CASE stockRoute.attempt \in {0, 1} -> 0
                  [] stockRoute.attempt = 2 -> 1000
                  [] stockRoute.attempt = 3 -> 1000 + 2000
                  [] stockRoute.attempt = 4 -> 1000 + 2000 + 4000)
          /\ (stockRoute.stage = "responded" /\ stockRoute.settled.t # "none"
                /\ ~stockFetch(stockRoute.settled).ok)
               => /\ stockRoute.response = stockCatch(stockFetch(stockRoute.settled).thrown)
                  /\ stockFetch(stockRoute.settled).thrown.status \notin {400, 404}
                       => stockRoute.requests = 4)
  /\ [][\A outcome \in UpstreamOutcomes :
          (outcome.t = "http" /\ outcome.status \in {400, 404}) => ~StockRetries(outcome)]_vars

C21_Witness ==
  /\ stockRoute # NotRunning
  /\ stockRoute.stage = "responded"
  /\ stockRoute.settled.status = 429
  /\ stockRoute.requests = 4
  /\ stockRoute.waited = 7000
  /\ stockRoute.response.code = "YAHOO_RATE_LIMIT"

\* a 200 body that validateYahooResponse refuses
C22_Malformed(outcome) ==
  /\ outcome.t = "ok"
  /\ ~HasKey(outcome.data.error)
  /\ ~validateYahooResponse(outcome.data)

\* C22: a malformed upstream payload is answered as an error after a single
\* upstream request: no malformed payload is followed by another request.
C22_MalformedNotRetried ==
  /\ []((stockRoute # NotRunning /\ stockRoute.stage = "responded"
           /\ C22_Malformed(stockRoute.settled))
          => (stockRoute.requests = 1 /\ stockRoute.response.status >= 400))
  /\ [][\A outcome \in UpstreamOutcomes : C22_Malformed(outcome) => ~StockRetries(outcome)]_vars

\* ============================================== the ledger: edit and add
\* C23: an edit of an Active entry as getEntries returned it (dateSell and
\* priceSell are keys of it, both undefined) resolves, and leaves the store
\* record with no sell data.
C23_EditOfFetchedEntrySucceeds ==
  (last.kind = "edit"
     /\ Read(last.arg.status) = Str(<<"Active">>)
     /\ last.arg.priceSell = Undef /\ last.arg.dateSell = Undef)
    => /\ last.result = "resolved"
       /\ last.id \in DOMAIN store
            => /\ ~HasKey(store[last.id].priceSell)
               /\ ~HasKey(store[last.id].dateSell)

\* C24: with store writes that either fail without effect or succeed, one
\* call of addEntry creates at most one record over all the attempts of
\* withRetry: a step of an add call that is a retry or the rejection leaves
\* the store as it is, and the step in which the call resolves adds exactly
\* one record and changes no other.
C24_AddCreatesAtMostOne ==
  [][\A op \in pending :
       (op.kind = "add" /\ op \notin pending')
         => IF last'.opn = op.opn /\ last'.result = "resolved"
              THEN /\ Cardinality(DOMAIN store') = Cardinality(DOMAIN store) + 1
                   /\ \A k \in DOMAIN store : k \in DOMAIN store' /\ store'[k] = store[k]
              ELSE store' = store]_vars

C24_Witness ==
  /\ last.kind = "add"
  /\ last.result = "resolved"
  /\ last.attempts > 1
  /\ last.id \in DOMAIN store

\* ================================= StockSearch: the symbol sent to the server
\* C25: every symbol that handleSearch passes to onSelect from typed input
\* is accepted by the server's isValidStockSymbol, so that GET
\* /api/stock/:symbol does not answer it with 400 INVALID_SYMBOL_FORMAT.
C25_TypedSelectionAccepted ==
  (symbolInput # NotRunning
     /\ symbolInput.rev = "plain"
     /\ symbolInput.stage = "selected")
    => /\ isValidStockSymbol(symbolInput.selected.s)
       /\ stockGate(symbolInput.selected.s) = NoResponse

\* ============================ StockSearch: the debounced suggestion search
\* part_000: search, debouncedSearch, the lodash debounce timer of
\* debouncedSetSearch and the useSWR request keyed by debouncedSearch.
MaxBoxLen == 2
MaxKeystrokes == 3

\* what the user can type into the input field, the empty field included
BoxInputs == StringsUpTo({"a", "S"}, MaxBoxLen) \cup {<<>>}

NoTimer == [t |-> "no timer"]

\* setDebouncedSearch(value) and the render after it: useSWR's key is
\* /api/search?query=<debouncedSearch> when debouncedSearch.length >= 1 and
\* null otherwise; a new key has no data yet and is fetched
setDebouncedSearch(box, value) ==
  IF value = box.debouncedSearch THEN box
  ELSE IF Len(value) >= 1
    THEN [box EXCEPT !.debouncedSearch = value, !.swr = "loading",
                     !.requests = box.requests + 1]
  ELSE [box EXCEPT !.debouncedSearch = value, !.swr = "idle"]

BoxInit ==
  /\ searchBox = [search |-> <<>>, debouncedSearch |-> <<>>, timer |-> NoTimer,
                  swr |-> "idle", requests |-> 0, keystrokes |-> 0,
                  selected |-> FALSE, requestsAtSelect |-> 0]
  /\ LedgerNotRunning
  /\ live = NotRunning /\ stockRoute = NotRunning /\ searchRoute = NotRunning
  /\ limiter = NotRunning /\ symbolInput = NotRunning /\ firebase = NotRunning

BoxFrame ==
  UNCHANGED <<ledgerVars, live, stockRoute, searchRoute, limiter, symbolInput, firebase>>

\* handleInputChange: setSearch(value); debouncedSetSearch(value), which
\* (re)starts the 500 ms timer with value as the pending argument
BoxInputChange(typed) ==
  /\ searchBox.keystrokes < MaxKeystrokes
  /\ inputValueOf(typed) # searchBox.search
  /\ searchBox' = [searchBox EXCEPT !.search = inputValueOf(typed),
                                    !.timer = Str(inputValueOf(typed)),
                                    !.keystrokes = searchBox.keystrokes + 1,
                                    !.selected = FALSE]
  /\ BoxFrame

\* 500 ms after the last keystroke the debounced function runs:
\* setDebouncedSearch(value) with the value of that keystroke
DebounceFires ==
  /\ searchBox.timer # NoTimer
  /\ searchBox' = [setDebouncedSearch(searchBox, searchBox.timer.s) EXCEPT !.timer = NoTimer]
  /\ BoxFrame

\* the search request of the current key is answered: with suggestions,
\* with an empty array, or with an error
SuggestionsArrive(answer) ==
  /\ searchBox.swr = "loading"
  /\ searchBox' = [searchBox EXCEPT !.swr = answer]
  /\ BoxFrame

\* the onClick of a suggestion, shown while data?.length > 0 && !error &&
\* !isLoading: setDebouncedSearch(''), setSearch(stock.symbol), onSelect,
\* clearSearch(); the debounce timer is left as it is
SuggestionClick ==
  /\ searchBox.swr = "data"
  /\ \E box \in {setDebouncedSearch(searchBox, <<>>)} :
       searchBox' = [box EXCEPT !.search = <<>>,
                                !.selected = TRUE,
                                !.requestsAtSelect = box.requests]
  /\ BoxFrame

\* handleSearch, the Track button (disabled while isLoading or search is
\* empty): setDebouncedSearch('') and onSelect(formattedSymbol)
BoxHandleSearch ==
  /\ searchBox.swr # "loading"
  /\ searchBox.search # <<>>
  /\ searchBox.debouncedSearch # <<>>
  /\ searchBox' = setDebouncedSearch(searchBox, <<>>)
  /\ BoxFrame

BoxNext ==
  \/ \E typed \in BoxInputs : BoxInputChange(typed)
  \/ DebounceFires
  \/ \E answer \in {"data", "none", "error"} : SuggestionsArrive(answer)
  \/ SuggestionClick
  \/ BoxHandleSearch

SpecDebounce == BoxInit /\ [][BoxNext]_vars

\* C26: after a suggestion was selected and until the user types again,
\* debouncedSearch stays empty and no further search request is issued,
\* also when a debounce timer was pending at the selection.
C26_QuietAfterSelection ==
  (searchBox # NotRunning /\ searchBox.selected)
    => /\ searchBox.debouncedSearch = <<>>
       /\ searchBox.requests = searchBox.requestsAtSelect

\* ======================================== the ledger: the list and the store
\* the ids of the rows of the dashboard's list
ListIds == {stockEntries[i].id : i \in 1..Len(stockEntries)}

RoutesInit == StockInit \/ SearchInit

RoutesNext ==
  \/ stockRoute # NotRunning /\ StockNext
  \/ searchRoute # NotRunning /\ SearchNext

SpecRoutes == RoutesInit /\ [][RoutesNext]_vars

\* the handler has not answered yet, or it has answered once and is done
C29_AtMostOnce(route) ==
  route # NotRunning
    => /\ route.sent <= 1
       /\ route.sent = 1 <=> route.stage = "responded"

\* the request reached the handler and has its answer
C29_Answered(route) ==
  route # NotRunning /\ route.stage = "responded" /\ route.sent = 1

\* C29: a request that reaches the handler of GET /api/stock/:symbol or of
\* GET /api/search receives exactly one response: at no point have two been
\* sent, a handler that has answered does nothing more, and a handler that
\* has not answered yet has a next step, of which there are at most 4
\* upstream requests for a stock and 8 for a search (every await settles: the
\* upstream requests carry a timeout and the backoff waits are timers).
C29_ExactlyOneResponse ==
  /\ [](C29_AtMostOnce(stockRoute) /\ C29_AtMostOnce(searchRoute))
  /\ [][/\ C29_Answered(stockRoute) => stockRoute' = stockRoute
        /\ C29_Answered(searchRoute) => searchRoute' = searchRoute]_vars
  /\ [](/\ (stockRoute # NotRunning /\ ~C29_Answered(stockRoute))
             => (ENABLED StockNext /\ stockRoute.requests <= 1 + backoffRetries)
        /\ (searchRoute # NotRunning /\ ~C29_Answered(searchRoute))
             => (ENABLED SearchNext /\ searchRoute.requests <= 2 * (1 + backoffRetries)))

C29_Witness ==
  /\ C29_Answered(searchRoute)
  /\ Len(searchRoute.calls) = 2
  /\ searchRoute.requests > 2
  /\ searchRoute.response.code = "NO_RESULTS"

\* ================================================= lib/firebase.ts
\* The module state (firebaseApp, firestoreDb, isInitialized,
\* initializationError) and the calls of initializeFirebase: the one of the
\* module's top-level await and those of reinitializeFirebase.
MaxCalls == 3

\* initializeFirebase's default for retries
firebaseRetries == 3

\* what one run of the try block meets, if it gets that far
FirebaseOutcomes ==
  {"ok", "initializeApp throws", "getFirestore throws",
   "enableIndexedDbPersistence throws", "persistence: failed-precondition",
   "persistence: unimplemented", "persistence: other"}

\* 1000 * Math.pow(2, attempt)
firebaseDelay(attempt) == 1000 * 2^attempt

\* a catch block that never rethrows
firebaseRethrows_Never(attempt, retries) == FALSE

\* if (attempt === retries - 1) throw error
firebaseRethrows(attempt, retries) == attempt = retries - 1

\* one run of the try block: the module state after it and whether it
\* returned.  A rejection of enableIndexedDbPersistence is swallowed by its
\* .catch handler.
tryInitialize(fb, outcome) ==
  LET withApp == [fb EXCEPT !.app = TRUE]
      withDb == [withApp EXCEPT !.db = TRUE]
  IN IF ~fb.app /\ outcome = "initializeApp throws"
       THEN [ok |-> FALSE, fb |-> fb]
     ELSE IF ~fb.db /\ outcome = "getFirestore throws"
       THEN [ok |-> FALSE, fb |-> withApp]
     ELSE IF ~fb.db /\ outcome = "enableIndexedDbPersistence throws"
       THEN [ok |-> FALSE, fb |-> withDb]
     ELSE [ok |-> TRUE,
           fb |-> [withDb EXCEPT
                     !.persistence =
                        IF fb.db THEN @
                        ELSE IF outcome \in {"persistence: failed-precondition",
                                             "persistence: unimplemented",
                                             "persistence: other"}
                          THEN outcome ELSE "enabled",
                     !.isInitialized = TRUE,
                     !.initializationError = "none"]]

\* the module is evaluated: export const db = await initializeFirebase()
FirebaseInit ==
  /\ firebase = [app |-> FALSE, db |-> FALSE, isInitialized |-> FALSE,
                 initializationError |-> "none", persistence |-> "none",
                 call |-> "running", calls |-> 1, attempt |-> 0, tries |-> 0,
                 waits |-> <<>>, console |-> <<>>]
  /\ LedgerNotRunning
  /\ live = NotRunning /\ stockRoute = NotRunning /\ searchRoute = NotRunning
  /\ limiter = NotRunning /\ symbolInput = NotRunning /\ searchBox = NotRunning

FirebaseFrame ==
  UNCHANGED <<ledgerVars, live, stockRoute, searchRoute, limiter, symbolInput, searchBox>>

\* the try block runs to its return
InitializeSucceeds(outcome) ==
  /\ firebase.call = "running"
  /\ \E r \in {tryInitialize(firebase, outcome)} :
       /\ r.ok
       /\ firebase' = [r.fb EXCEPT !.call = "resolved", !.tries = @ + 1]
  /\ FirebaseFrame

\* the try block throws: the catch block logs and records the error and
\* rethrows or waits; the loop ends after the last attempt
InitializeFails(outcome) ==
  /\ firebase.call = "running"
  /\ \E r \in {tryInitialize(firebase, outcome)} :
       /\ ~r.ok
       /\ firebase' =
            IF firebaseRethrows(firebase.attempt, firebaseRetries)
              THEN [r.fb EXCEPT !.initializationError = outcome, !.tries = @ + 1,
                                !.console = Append(@, outcome),
                                !.call = "rejected"]
              ELSE [r.fb EXCEPT !.initializationError = outcome, !.tries = @ + 1,
                                !.console = Append(@, outcome),
                                !.waits = Append(@, firebaseDelay(firebase.attempt)),
                                !.attempt = @ + 1,
                                !.call = IF firebase.attempt + 1 < firebaseRetries
                                           THEN "running" ELSE "rejected"]
  /\ FirebaseFrame

\* reinitializeFirebase(), which the module exports once its top-level
\* await has resolved
Reinitialize ==
  /\ firebase.call = "resolved"
  /\ firebase.calls < MaxCalls
  /\ firebase' = [firebase EXCEPT !.call = "running", !.calls = @ + 1,
                                  !.attempt = 0, !.tries = 0, !.waits = <<>>]
  /\ FirebaseFrame

FirebaseNext ==
  \/ \E outcome \in FirebaseOutcomes : InitializeSucceeds(outcome)
  \/ \E outcome \in FirebaseOutcomes : InitializeFails(outcome)
  \/ Reinitialize

SpecFirebase == FirebaseInit /\ [][FirebaseNext]_vars

\* C30: a call of initializeFirebase makes at most 3 attempts and waits
\* 1000 * 2^attempt ms after the attempt numbered attempt (from 0) before the
\* next one; in every state isInitialized implies that the Firestore handle
\* is set and initializationError is null; and isInitialized, once true,
\* stays true, also across reinitializeFirebase calls.
C30_InitializationBound ==
  /\ [](firebase # NotRunning =>
          /\ firebase.tries <= 3
          /\ Len(firebase.waits) <= 2
          /\ firebase.waits = [i \in 1..Len(firebase.waits) |-> 1000 * 2^(i - 1)]
          /\ firebase.call = "running" => Len(firebase.waits) = firebase.tries
          /\ firebase.isInitialized
               => firebase.db /\ firebase.initializationError = "none")
  /\ [][(firebase # NotRunning /\ firebase.isInitialized)
          => firebase'.isInitialized]_vars

C30_Witness ==
  /\ firebase # NotRunning
  /\ firebase.isInitialized
  /\ firebase.calls = 2
  /\ firebase.call = "resolved"
  /\ firebase.persistence = "persistence: unimplemented"

====
